---- MODULE Spec2Model ----
(***************************************************************************)
(* Model of the cross-chain intent solver: the VariableEnv (src/src/env.ts),*)
(* the orchestrator (src/src/loop.ts), the quoter (src/src/quote.ts) and    *)
(* the filler (src/src/fill.ts).                                            *)
(*                                                                          *)
(* Variable indices are 1-based here (0-based in the source).  A promise is *)
(* identified by its position in the table prom; the source creates exactly *)
(* one promise at each place where it writes a cache slot.                  *)
(***************************************************************************)
EXTENDS Integers, Sequences, FiniteSets, TLC

VARIABLES
    order,      \* the ResolvedOrder being processed (immutable after Init)
    cache,      \* VariableEnv.cache: per variable [value, tick]
    tick,       \* VariableEnv.tick
    prom,       \* the promises created by set/get, in creation order
    dirty,      \* history: Query variables with a dependency set since their last compute
    last,       \* history: the most recent VariableEnv.set / VariableEnv.get call
    ctx,        \* the SolverContext (immutable after Init)
    now,        \* the wall clock, in seconds
    proc,       \* process(ctx, order): its position and the locals of quote and fill
    hist        \* history: per-step outcomes and the chain I/O issued so far

vars == <<order, cache, tick, prom, dirty, last, ctx, now, proc, hist>>

----------------------------------------------------------------------------
(* Bounds *)

MaxTick == 6        \* cap on VariableEnv.tick
MaxVal == 1         \* uint256 values are drawn from 0..MaxVal

----------------------------------------------------------------------------
(* Values *)

NoValue == 0        \* cache slot without a value (value?: undefined)

Static(n) == [type |-> "Static", encoding |-> n]
Dynamic(n) == [type |-> "Dynamic", encoding |-> n]
Nothing == [type |-> "None", encoding |-> 0]    \* no value (pending or rejected)

\* Promises: pending, resolved with a value, or rejected with an error.
Pending(varIdx, aw) ==
    [state |-> "pending", value |-> Nothing, err |-> "", var |-> varIdx, awaits |-> aw]
Resolved(varIdx, v) ==
    [state |-> "ok", value |-> v, err |-> "", var |-> varIdx, awaits |-> <<>>]
Rejected(varIdx, msg) ==
    [state |-> "err", value |-> Nothing, err |-> msg, var |-> varIdx, awaits |-> <<>>]

\* The outcome of a function that returns a value or throws.
Ok(v) == [err |-> "", value |-> v]
Err(msg) == [err |-> msg, value |-> Nothing]

\* Byte strings are sequences of numbers in 0..255; size(hex) is the length.

\* numberToHex(n, { size }): the big-endian bytes of n, left-padded to size
\* (n is below 2^31, so only the last four bytes can be non-zero).
numberToHex(n, sz) ==
    [i \in 1..sz |-> IF sz - i > 3 THEN 0 ELSE (n \div (256 ^ (sz - i))) % 256]

\* concat: the byte strings of a list, joined in order.
RECURSIVE concat(_)
concat(hexes) == IF hexes = <<>> THEN <<>> ELSE Head(hexes) \o concat(Tail(hexes))

startsWith(h, prefix) ==
    Len(prefix) <= Len(h) /\ SubSeq(h, 1, Len(prefix)) = prefix

\* A number above every size and length that occurs.
Huge == 16777216

\* hexToNumber: the number a byte string holds, big-endian; a string with a
\* non-zero byte before its last three bytes holds a number of at least Huge.
hexToNumber(hex) ==
    LET byte(k) == IF k < Len(hex) THEN hex[Len(hex) - k] ELSE 0
    IN  IF \E k \in 1..(Len(hex) - 3) : hex[k] # 0 THEN Huge
        ELSE byte(0) + 256 * byte(1) + 65536 * byte(2)

\* slice(value, start, end): the bytes from start up to end, as far as they
\* exist; it throws when start is positive and not below the size.
sliceThrows(value, start) == start > 0 /\ start > Len(value) - 1
slice(value, start, end) ==
    SubSeq(value, start + 1, IF end < Len(value) THEN end ELSE Len(value))

ZERO == [i \in 1..32 |-> 0]
DYN_PREFIX == numberToHex(64, 32) \o numberToHex(96, 32) \o numberToHex(0, 32)

\* decodeAbiWrappedValue: the value decoded, or the error thrown.
decodeAbiWrappedValue(encoded) ==
    IF startsWith(encoded, DYN_PREFIX)
    THEN IF sliceThrows(encoded, Len(DYN_PREFIX))
         THEN Err("Slice offset out of bounds")
         ELSE Ok(Dynamic(slice(encoded, Len(DYN_PREFIX), Len(encoded))))
    ELSE IF encoded = <<>> THEN Err("Cannot convert 0x to a BigInt")
    ELSE LET length == hexToNumber(slice(encoded, 0, 32))
             expectedLength == length + 64
         IN  IF Len(encoded) # expectedLength
             THEN Err("Invalid static argument length")
             ELSE IF slice(encoded, expectedLength - 32, expectedLength) # ZERO
             THEN Err("Missing static argument end marker")
             ELSE Ok(Static(slice(encoded, 32, expectedLength - 32)))

\* encodeAbiParameters([{ type: 'string' }, { type }], ["", value]), given
\* the ABI encoding of value and whether type is dynamic: the heads are the
\* offset of the string and the value (inline, or its offset), the tails
\* the length word of the empty string and the encoding of a dynamic value.
encodeAbiParameters(dynamic, encoding) ==
    IF dynamic
    THEN numberToHex(64, 32) \o numberToHex(96, 32) \o numberToHex(0, 32) \o encoding
    ELSE numberToHex(32 + Len(encoding), 32) \o encoding \o numberToHex(0, 32)

\* abiEncode(value, type) on the ABI encoding of value.
abiEncodeAs(dynamic, encoding) ==
    decodeAbiWrappedValue(encodeAbiParameters(dynamic, encoding))

\* abiEncode(value, 'uint256' | 'address').  Where values are not byte
\* strings, Static(n) stands for the one-word encoding of the number n.
abiEncode(n) ==
    LET r == abiEncodeAs(FALSE, numberToHex(n, 32))
    IN  IF r.err # "" THEN r
        ELSE IF r.value.type = "Static" THEN Ok(Static(hexToNumber(r.value.encoding)))
        ELSE Ok(Dynamic(0))

\* The promise of an async function that returned or threw r.
Settled(varIdx, r) ==
    IF r.err = "" THEN [state |-> "ok", value |-> r.value, err |-> "", var |-> varIdx,
                        awaits |-> <<>>]
    ELSE [state |-> "err", value |-> Nothing, err |-> r.err, var |-> varIdx,
          awaits |-> <<>>]

ctx_paymentChain == 1
ctx_paymentRecipient(chainId) == chainId

Variable(i) == [type |-> "Variable", varIdx |-> i]
Literal(v) == [type |-> "AbiEncodedValue", value |-> v]

PaymentChain == [type |-> "PaymentChain"]
PaymentRecipient(c) == [type |-> "PaymentRecipient", chainId |-> c]
Pricing == [type |-> "Pricing"]
TxOutput == [type |-> "TxOutput"]
QueryEvents == [type |-> "QueryEvents"]
Witness(k, vs) == [type |-> "Witness", kind |-> k, variables |-> vs]
Query(args) == [type |-> "Query", arguments |-> args]

----------------------------------------------------------------------------
(* VariableEnv *)

\* VariableEnv.deps: the variable arguments of a Query, in order.
deps(roles, varIdx) ==
    IF roles[varIdx].type = "Query"
    THEN LET vs == SelectSeq(roles[varIdx].arguments, LAMBDA a : a.type = "Variable")
         IN  [k \in 1..Len(vs) |-> vs[k].varIdx]
    ELSE <<>>

\* Mutant of isFresh: the freshness of the dependencies themselves is not
\* checked, only their ticks.
isFresh_NoRecursion(roles, c, varIdx) ==
    /\ c[varIdx].value # NoValue
    /\ \A k \in 1..Len(deps(roles, varIdx)) :
          ~(c[deps(roles, varIdx)[k]].tick > c[varIdx].tick)

RECURSIVE isFresh(_, _, _)
isFresh(roles, c, varIdx) ==
    /\ c[varIdx].value # NoValue
    /\ \A k \in 1..Len(deps(roles, varIdx)) :
          LET depIdx == deps(roles, varIdx)[k]
          IN  ~(c[depIdx].tick > c[varIdx].tick \/ ~isFresh(roles, c, depIdx))

\* The environment as one record, threaded through the synchronous part of get.
\* started is the spy on recompute: the variables whose compute the current
\* call has started.
Env(c, t, p) == [cache |-> c, tick |-> t, prom |-> p, started |-> <<>>]

\* Variant: the slot receives the counter's value after the increment.
store_TickAfterIncrement(e, varIdx, p) ==
    [e EXCEPT !.prom = Append(@, p),
              !.cache[varIdx] = [value |-> Len(e.prom) + 1, tick |-> e.tick + 1],
              !.tick = @ + 1]

\* Writing a slot: the new promise, the pre-increment tick, then tick++.
store(e, varIdx, p) ==
    [e EXCEPT !.prom = Append(@, p),
              !.cache[varIdx] = [value |-> Len(e.prom) + 1, tick |-> e.tick],
              !.tick = @ + 1]

RECURSIVE get(_, _, _)
RECURSIVE buildCallData(_, _, _, _)

\* buildCallData: map over the arguments in order; each variable argument
\* calls env.get synchronously.  Returns the environment and the promises
\* awaited by Promise.all (literal arguments await nothing).
buildCallData(roles, e, args, k) ==
    IF k > Len(args) THEN [env |-> e, awaits |-> <<>>]
    ELSE IF args[k].type = "Variable"
         THEN LET e1 == get(roles, e, args[k].varIdx)
                  r == buildCallData(roles, e1, args, k + 1)
              IN  [env |-> r.env,
                   awaits |-> <<e1.cache[args[k].varIdx].value>> \o r.awaits]
         ELSE buildCallData(roles, e, args, k + 1)

\* Variant: a settable variable that was never set reads as zero.
recompute_UnsetIsZero(roles, e, varIdx) ==
    LET role == roles[varIdx]
        e0 == [e EXCEPT !.started = Append(@, varIdx)]
    IN  CASE role.type = "PaymentChain" ->
               [env |-> e0, p |-> Settled(varIdx, abiEncode(ctx_paymentChain))]
          [] role.type = "PaymentRecipient" ->
               [env |-> e0,
                p |-> Settled(varIdx, abiEncode(ctx_paymentRecipient(role.chainId)))]
          [] role.type = "Query" ->
               LET r == buildCallData(roles, e0, role.arguments, 1)
               IN  [env |-> r.env, p |-> Pending(varIdx, r.awaits)]
          [] role.type = "QueryEvents" ->
               [env |-> e0, p |-> Rejected(varIdx, "TODO")]
          [] OTHER ->
               [env |-> e0, p |-> Resolved(varIdx, Static(0))]

\* VariableEnv.recompute up to its first suspension: the promise it returns.
recompute(roles, e, varIdx) ==
    LET role == roles[varIdx]
        e0 == [e EXCEPT !.started = Append(@, varIdx)]
    IN  CASE role.type = "PaymentChain" ->
               [env |-> e0, p |-> Settled(varIdx, abiEncode(ctx_paymentChain))]
          [] role.type = "PaymentRecipient" ->
               [env |-> e0,
                p |-> Settled(varIdx, abiEncode(ctx_paymentRecipient(role.chainId)))]
          [] role.type = "Query" ->
               LET r == buildCallData(roles, e0, role.arguments, 1)
               IN  [env |-> r.env, p |-> Pending(varIdx, r.awaits)]
          [] role.type = "QueryEvents" ->
               [env |-> e0, p |-> Rejected(varIdx, "TODO")]
          [] OTHER ->
               [env |-> e0, p |-> Rejected(varIdx, "not set")]

\* Mutant of get: the slot's tick is taken before recompute runs, so the
\* dependencies computed by recompute receive larger ticks than the slot.
get_TickBeforeRecompute(roles, e, varIdx) ==
    IF isFresh(roles, e.cache, varIdx) THEN e
    ELSE LET r == recompute(roles, [e EXCEPT !.tick = @ + 1], varIdx)
         IN  [r.env EXCEPT !.prom = Append(@, r.p),
                           !.cache[varIdx] = [value |-> Len(r.env.prom) + 1, tick |-> e.tick]]

\* Variant: a slot whose promise is still pending is computed again.
get_RecomputesPending(roles, e, varIdx) ==
    IF isFresh(roles, e.cache, varIdx) /\ e.prom[e.cache[varIdx].value].state # "pending"
    THEN e
    ELSE LET r == recompute(roles, e, varIdx)
         IN  store(r.env, varIdx, r.p)

\* Variant: a slot whose promise was rejected is computed again.
get_RetriesFailed(roles, e, varIdx) ==
    IF isFresh(roles, e.cache, varIdx) /\ e.prom[e.cache[varIdx].value].state # "err"
    THEN e
    ELSE LET r == recompute(roles, e, varIdx)
         IN  store(r.env, varIdx, r.p)

\* VariableEnv.get: the state after the call returns its promise, which is
\* get(...).cache[varIdx].value in both branches.
get(roles, e, varIdx) ==
    IF isFresh(roles, e.cache, varIdx) THEN e
    ELSE LET r == recompute(roles, e, varIdx)
         IN  store(r.env, varIdx, r.p)

\* Variant: a Query variable can be set as well.
CanSet_QueryToo(role) == role.type \in {"Pricing", "TxOutput", "Witness", "Query"}

CanSet(role) == role.type \in {"Pricing", "TxOutput", "Witness"}

\* VariableEnv.set on a settable role.
set(e, varIdx, value) ==
    store(e, varIdx, Resolved(varIdx, value))

\* Query variables that depend on varIdx through Query arguments.
RECURSIVE DependsOn(_, _, _)
DependsOn(roles, j, i) ==
    \E k \in 1..Len(deps(roles, j)) :
        deps(roles, j)[k] = i \/ DependsOn(roles, deps(roles, j)[k], i)

Dependents(roles, i) == {j \in 1..Len(roles) : DependsOn(roles, j, i)}

TheEnv == Env(cache, tick, prom)

\* A settled promise that no cache slot holds and no pending compute awaits
\* can no longer be observed: its table entry is cleared.
Dropped == [state |-> "dropped", value |-> Nothing, err |-> "", var |-> 0, awaits |-> <<>>]

Held(c, ps) ==
    {c[i].value : i \in DOMAIN c}
    \cup {p \in DOMAIN ps : ps[p].state = "pending"}
    \cup UNION {{ps[p].awaits[k] : k \in DOMAIN ps[p].awaits} : p \in DOMAIN ps}

Collect(c, ps) == [p \in DOMAIN ps |-> IF p \in Held(c, ps) THEN ps[p] ELSE Dropped]

Install(e) ==
    /\ cache' = e.cache
    /\ tick' = e.tick
    /\ prom' = Collect(e.cache, e.prom)

----------------------------------------------------------------------------
(* The plan (src/src/types.ts).  An optional attribute is a sequence of     *)
(* length 0 or 1.  Hex strings are sequences of hex digits (after "0x").    *)

Constant(n) == [type |-> "Constant", value |-> n]
VarRef(i) == [type |-> "Variable", varIdx |-> i]

Account(a, c) == [address |-> a, chainId |-> c]

ERC20(tok, formula, delay) ==
    [type |-> "ERC20", token |-> tok, amountFormula |-> formula,
     estimatedDelaySeconds |-> delay]

NoAttributes ==
    [SpendsERC20 |-> <<>>, SpendsEstimatedGas |-> <<>>, RevertPolicy |-> <<>>,
     RequiredBefore |-> <<>>, RequiredFillerUntil |-> <<>>,
     WithTimestamp |-> <<>>, WithBlockNumber |-> <<>>, WithEffectiveGasPrice |-> <<>>]

Call_(chain, args, attrs, pays) ==
    [type |-> "Call", target |-> Account("target", chain), arguments |-> args,
     attributes |-> attrs, payments |-> pays]

Order(steps, roles, assumptions, pays) ==
    [steps |-> steps, variables |-> roles, assumptions |-> assumptions, payments |-> pays]

----------------------------------------------------------------------------
(* Orchestrator: preflight (src/src/loop.ts) *)

MAX_FILL_TIME_SECONDS == 600
Infinity == 1000000000

\* Array.findIndex / findLastIndex over 1-based positions: 0 when nothing
\* matches (-1 in the source).
findIndex(seq, Test(_)) ==
    IF \E k \in 1..Len(seq) : Test(seq[k])
    THEN CHOOSE k \in 1..Len(seq) : Test(seq[k]) /\ \A m \in 1..(k - 1) : ~Test(seq[m])
    ELSE 0

findLastIndex(seq, Test(_)) ==
    IF \E k \in 1..Len(seq) : Test(seq[k])
    THEN CHOOSE k \in 1..Len(seq) : Test(seq[k]) /\ \A m \in (k + 1)..Len(seq) : ~Test(seq[m])
    ELSE 0

HasSpend(step) == Len(step.attributes.SpendsERC20) > 0
HasDrop(step) ==
    \E k \in 1..Len(step.attributes.RevertPolicy) :
        step.attributes.RevertPolicy[k].policy = "drop"

\* Variant: a drop entry on the first SpendsERC20 step is rejected too.
hasValidRevertPolicies_Strict(o) ==
    LET firstFillIdx == findIndex(o.steps, HasSpend)
        lastDropIdx == findLastIndex(o.steps, HasDrop)
    IN  lastDropIdx < firstFillIdx

\* Variant: the first step with a drop entry is compared, not the last.
hasValidRevertPolicies_FirstDrop(o) ==
    LET firstFillIdx == findIndex(o.steps, HasSpend)
        firstDropIdx == findIndex(o.steps, HasDrop)
    IN  firstDropIdx <= firstFillIdx

hasValidRevertPolicies(o) ==
    LET firstFillIdx == findIndex(o.steps, HasSpend)
        lastDropIdx == findLastIndex(o.steps, HasDrop)
    IN  lastDropIdx <= firstFillIdx

RECURSIVE earliestFrom(_, _, _)
earliestFrom(steps, k, earliest) ==
    IF k > Len(steps) THEN earliest
    ELSE LET rb == steps[k].attributes.RequiredBefore
         IN  IF rb # <<>> /\ rb[1].deadline < earliest
             THEN earliestFrom(steps, k + 1, rb[1].deadline)
             ELSE earliestFrom(steps, k + 1, earliest)

\* Number(deadline) is exact for the deadlines modelled (below 2^53).
getEarliestDeadline(o) == earliestFrom(o.steps, 1, Infinity)

\* Variant: the assumptions of the plan are not looked at.
preflight_NoTrustGate(c, o, t) ==
    IF ~hasValidRevertPolicies(o) THEN "Invalid RevertPolicy order"
    ELSE IF t + MAX_FILL_TIME_SECONDS >= getEarliestDeadline(o)
    THEN "Deadline too close or already expired"
    ELSE IF \E i \in 1..Len(o.variables) :
                o.variables[i].type = "Witness"
                /\ o.variables[i].kind \notin c.witnessResolvers
    THEN "Unsupported witness kind"
    ELSE ""

\* Variant: the witness kinds of the plan are not looked at.
preflight_NoWitnessGate(c, o, t) ==
    IF ~hasValidRevertPolicies(o) THEN "Invalid RevertPolicy order"
    ELSE IF t + MAX_FILL_TIME_SECONDS >= getEarliestDeadline(o)
    THEN "Deadline too close or already expired"
    ELSE IF \E k \in 1..Len(o.assumptions) :
                <<o.assumptions[k].trusted, o.assumptions[k].kind>> \notin c.isWhitelisted
    THEN "Untrusted account"
    ELSE ""

\* Variant: a deadline exactly MAX_FILL_TIME_SECONDS away is accepted.
preflight_EqualityAccepted(c, o, t) ==
    IF ~hasValidRevertPolicies(o) THEN "Invalid RevertPolicy order"
    ELSE IF t + MAX_FILL_TIME_SECONDS > getEarliestDeadline(o)
    THEN "Deadline too close or already expired"
    ELSE IF \E k \in 1..Len(o.assumptions) :
                <<o.assumptions[k].trusted, o.assumptions[k].kind>> \notin c.isWhitelisted
    THEN "Untrusted account"
    ELSE IF \E i \in 1..Len(o.variables) :
                o.variables[i].type = "Witness"
                /\ o.variables[i].kind \notin c.witnessResolvers
    THEN "Unsupported witness kind"
    ELSE ""

\* preflight: the message of the error it throws, "" when it returns.
preflight(c, o, t) ==
    IF ~hasValidRevertPolicies(o) THEN "Invalid RevertPolicy order"
    ELSE IF t + MAX_FILL_TIME_SECONDS >= getEarliestDeadline(o)
    THEN "Deadline too close or already expired"
    ELSE IF \E k \in 1..Len(o.assumptions) :
                <<o.assumptions[k].trusted, o.assumptions[k].kind>> \notin c.isWhitelisted
    THEN "Untrusted account"
    ELSE IF \E i \in 1..Len(o.variables) :
                o.variables[i].type = "Witness"
                /\ o.variables[i].kind \notin c.witnessResolvers
    THEN "Unsupported witness kind"
    ELSE ""

----------------------------------------------------------------------------
(* Quoter: pure parts (src/src/quote.ts) *)

collectPricingVars(o) ==
    SelectSeq([i \in 1..Len(o.variables) |-> i], LAMBDA i : o.variables[i].type = "Pricing")

GasFlow(step, k) ==
    [chainId |-> step.target.chainId, token |-> "gas", sign |-> -1, step |-> k,
     amount |-> IF step.attributes.SpendsEstimatedGas # <<>>
                THEN <<step.attributes.SpendsEstimatedGas[1].amountFormula>> ELSE <<>>]

TokenFlow(tok, formula, sgn) ==
    [chainId |-> tok.chainId, token |-> tok.address, sign |-> sgn, step |-> 0,
     amount |-> <<formula>>]

PaymentFlows(pays) ==
    [k \in 1..Len(pays) |-> TokenFlow(pays[k].token, pays[k].amountFormula, 1)]

StepFlows(step, k) ==
    <<GasFlow(step, k)>>
    \o [m \in 1..Len(step.attributes.SpendsERC20) |->
            TokenFlow(step.attributes.SpendsERC20[m].token,
                      step.attributes.SpendsERC20[m].amountFormula, -1)]
    \o PaymentFlows(step.payments)

RECURSIVE AllStepFlows(_, _)
AllStepFlows(steps, k) ==
    IF k > Len(steps) THEN <<>> ELSE StepFlows(steps[k], k) \o AllStepFlows(steps, k + 1)

Delayed(pays) == \E k \in 1..Len(pays) : pays[k].estimatedDelaySeconds # 0

\* Variant: delayed payments are collected like the others.
collectFlowFormulas_DelayIgnored(o) ==
    [err |-> "", flows |-> AllStepFlows(o.steps, 1) \o PaymentFlows(o.payments)]

\* collectFlowFormulas: the flows in collection order, or the error thrown at
\* the first delayed payment (nothing else is done before the throw).
collectFlowFormulas(o) ==
    IF (\E k \in 1..Len(o.steps) : Delayed(o.steps[k].payments)) \/ Delayed(o.payments)
    THEN [err |-> "Delayed payment not supported", flows |-> <<>>]
    ELSE [err |-> "", flows |-> AllStepFlows(o.steps, 1) \o PaymentFlows(o.payments)]

Price(c, flow) ==
    IF flow.token = "gas" THEN c.getGasPriceUsd[flow.chainId]
    ELSE c.getTokenPriceUsd[<<flow.token, flow.chainId>>]

RECURSIVE pnlFrom(_, _, _, _)
pnlFrom(c, flows, amounts, k) ==
    IF k > Len(flows) THEN 0
    ELSE amounts[k] * flows[k].sign * Price(c, flows[k]) + pnlFrom(c, flows, amounts, k + 1)

computePnLUsd(c, flows, amounts) == pnlFrom(c, flows, amounts, 1)

----------------------------------------------------------------------------
(* Filler: pure parts (src/src/fill.ts) *)

toLowerCase(h) ==
    [k \in 1..Len(h) |->
        CASE h[k] = "A" -> "a" [] h[k] = "B" -> "b" [] h[k] = "C" -> "c"
          [] h[k] = "D" -> "d" [] h[k] = "E" -> "e" [] h[k] = "F" -> "f"
          [] OTHER -> h[k]]

PolicyMatches(entry, revertData) ==
    startsWith(toLowerCase(revertData), toLowerCase(entry.expectedReason))

\* Variant: the last matching entry decides.
getMatchingRevertPolicy_LastMatch(step, revertData) ==
    LET Matches(entry) == PolicyMatches(entry, revertData)
        k == findLastIndex(step.attributes.RevertPolicy, Matches)
    IN  IF k = 0 THEN "undefined" ELSE step.attributes.RevertPolicy[k].policy

\* Variant: a revert no entry matches is ignored.
getMatchingRevertPolicy_DefaultIgnore(step, revertData) ==
    LET Matches(entry) == PolicyMatches(entry, revertData)
        k == findIndex(step.attributes.RevertPolicy, Matches)
    IN  IF k = 0 THEN "ignore" ELSE step.attributes.RevertPolicy[k].policy

\* getMatchingRevertPolicy: the policy of the first matching entry,
\* "undefined" when none matches.
getMatchingRevertPolicy(step, revertData) ==
    LET Matches(entry) == PolicyMatches(entry, revertData)
        k == findIndex(step.attributes.RevertPolicy, Matches)
    IN  IF k = 0 THEN "undefined" ELSE step.attributes.RevertPolicy[k].policy

\* isAddressEqual: addresses are hex strings, compared whatever their case.
isAddressEqual(a, b) == toLowerCase(a) = toLowerCase(b)

\* setTimeout takes its delay as a 32-bit number of milliseconds: a delay
\* above 2^31 - 1 ms, that is of more than TIMEOUT_MAX_SECONDS whole
\* seconds, is replaced by 1 ms.
TIMEOUT_MAX_SECONDS == 2147483

\* getStepExecutionTimestamp after the WithTimestamp variable was read:
\* known is <<timestamp>> when the variable resolved to a Static value and
\* <<>> otherwise (absent attribute, rejected get, Dynamic value).
getStepExecutionTimestamp(c, step, known) ==
    LET rfu == step.attributes.RequiredFillerUntil
    IN  IF rfu # <<>> /\ ~isAddressEqual(rfu[1].exclusiveFiller, c.fillerAddress)
           /\ (known = <<>> \/ rfu[1].deadline > known[1])
        THEN <<rfu[1].deadline>>
        ELSE known

----------------------------------------------------------------------------
(* The SolverContext (src/unnamed/part_001) and the idle process state *)

Ctx(filler, whitelist, kinds) ==
    [fillerAddress |-> filler, isWhitelisted |-> whitelist, witnessResolvers |-> kinds,
     getGasPriceUsd |-> [c \in {1, 2} |-> c],
     getTokenPriceUsd |-> [t \in {<<"T", 1>>, <<"U", 2>>} |-> IF t[1] = "T" THEN 2 ELSE 1]]

Oracle == Account("oracle", 1)

Ctx0 == Ctx(<<"f", "1">>, {<<Oracle, "oracle">>}, {"k"})

Start ==
    [pc |-> "preflight", result |-> "running", filled |-> "none", stepIdx |-> 0,
     argIdx |-> 0, flowIdx |-> 0, wait |-> <<>>, amounts |-> <<>>, revertData |-> <<>>,
     receipt |-> <<>>, block |-> <<>>, sched |-> <<>>, simStatus |-> "", simAt |-> <<>>]

NoProcess == [Start EXCEPT !.pc = "none"]

\* History: per step its outcome, the kinds of activity started for it and
\* the number of sendTransaction calls; the kinds of chain requests issued;
\* the number of gas simulations of quote; the clock when process was
\* called; the env when the current step's pre-simulation was issued; the
\* variables a witness resolver's resolve was called for.
NoHistory(o, t) ==
    [outcome |-> [k \in 1..Len(o.steps) |-> "PENDING"],
     acts |-> [k \in 1..Len(o.steps) |-> {}],
     sent |-> [k \in 1..Len(o.steps) |-> 0],
     io |-> {}, gasSims |-> 0, now0 |-> t,
     snap |-> [cache |-> <<>>, tick |-> 0],
     resolves |-> {}]

----------------------------------------------------------------------------
(* Driving a VariableEnv directly: any sequence of set / get calls and of  *)
(* eth_call completions.                                                    *)

Roles == order.variables
VarIdxs == 1..Len(order.variables)

\* Outcomes of client.call followed by decodeAbiWrappedValue.
CallResults ==
    {[state |-> "ok", value |-> Static(n), err |-> ""] : n \in 0..MaxVal}
    \cup {[state |-> "ok", value |-> Dynamic(0), err |-> ""],
          [state |-> "err", value |-> Nothing, err |-> "call failed"],
          [state |-> "err", value |-> Nothing, err |-> "Invalid static argument length"]}

\* The outcomes the direct driver draws from: one value and one failure.
EnvCallResults == {r \in CallResults : r.value = Static(0) \/ r.err = "call failed"}

SetValues == {Static(n) : n \in 0..MaxVal}

Range(s) == {s[k] : k \in DOMAIN s}

\* The record of a call: the value passed to set (arg), the promise it
\* returned (ret), the computes it started in order (started), the promise
\* the slot held before (before),
\* whether the variable had a dependency set since its last compute
\* (wasDirty), and whether the call repeats a get of the same variable that
\* directly precedes it (again).
Call(o, varIdx, r, st, e) ==
    [op |-> o, var |-> varIdx, ret |-> r, started |-> st, err |-> e, n |-> 1 - last.n,
     before |-> cache[varIdx].value, wasDirty |-> varIdx \in dirty,
     again |-> o = "get" /\ last.op = "get" /\ last.var = varIdx, arg |-> Nothing]

NoCall ==
    [op |-> "none", var |-> 0, ret |-> NoValue, started |-> <<>>, err |-> "", n |-> 0,
     before |-> NoValue, wasDirty |-> FALSE, again |-> FALSE, arg |-> Nothing]

\* A call of env.set(varIdx, value) by the environment's owner.
EnvSet(varIdx, value) ==
    /\ tick < MaxTick
    /\ IF CanSet(Roles[varIdx])
       THEN /\ Install(set(TheEnv, varIdx, value))
            /\ dirty' = dirty \cup Dependents(Roles, varIdx)
            /\ last' = [Call("set", varIdx, Len(prom) + 1, <<>>, "") EXCEPT !.arg = value]
       ELSE /\ UNCHANGED <<cache, tick, prom, dirty>>
            /\ last' = [Call("set", varIdx, NoValue, <<>>, "cannot be set")
                            EXCEPT !.arg = value]
    /\ UNCHANGED <<order, ctx, now, proc, hist>>

\* A call of env.get(varIdx) up to the point where it returns its promise.
EnvGet(varIdx) ==
    LET e1 == get(Roles, TheEnv, varIdx)
    IN  /\ e1.tick <= MaxTick
        /\ Install(e1)
        /\ dirty' = dirty \ Range(e1.started)
        /\ last' = Call("get", varIdx, e1.cache[varIdx].value, e1.started, "")
        /\ UNCHANGED <<order, ctx, now, proc, hist>>

\* Variant: a compute whose argument was rejected is never settled.
CallReturn_HangsOnRejection(p, r) ==
    /\ prom[p].state = "pending"
    /\ LET aw == prom[p].awaits
       IN  /\ \A k \in 1..Len(aw) : prom[aw[k]].state = "ok"
           /\ prom' = Collect(cache, [prom EXCEPT ![p] =
                                 [@ EXCEPT !.state = r.state, !.value = r.value,
                                           !.err = r.err, !.awaits = <<>>]])
           /\ hist' = [hist EXCEPT !.io = @ \cup {"eth_call"}]
    /\ UNCHANGED <<order, cache, tick, dirty, last, ctx, now, proc>>

\* envCall of a Query compute: buildCallData's Promise.all rejects as soon as
\* an awaited argument is rejected; when all arguments are resolved the
\* eth_call is issued and its (decoded) result settles the promise.
CallReturn(p, r) ==
    /\ prom[p].state = "pending"
    /\ LET aw == prom[p].awaits
           rejected == {k \in 1..Len(aw) : prom[aw[k]].state = "err"}
       IN  \/ /\ rejected # {}
              /\ \E k \in rejected :
                    prom' = Collect(cache, [prom EXCEPT ![p] = Rejected(@.var, prom[aw[k]].err)])
              /\ hist' = hist
           \/ /\ \A k \in 1..Len(aw) : prom[aw[k]].state = "ok"
              /\ prom' = Collect(cache, [prom EXCEPT ![p] =
                                    [@ EXCEPT !.state = r.state, !.value = r.value,
                                              !.err = r.err, !.awaits = <<>>]])
              /\ hist' = [hist EXCEPT !.io = @ \cup {"eth_call"}]
    /\ UNCHANGED <<order, cache, tick, dirty, last, ctx, now, proc>>

EmptyOrder(roles) ==
    [steps |-> <<>>, variables |-> roles, assumptions |-> <<>>, payments |-> <<>>]

\* Role lists with acyclic Query dependencies (the caller invariant of
\* VariableEnv): a chain, a chain against index order, a diamond, repeated
\* and constant arguments, failing roles.
EnvRoleLists ==
    { <<TxOutput, Query(<<Variable(1)>>), Query(<<Variable(2)>>)>>,
      <<Query(<<Variable(2), Literal(Static(0))>>), Query(<<Variable(3)>>), Witness("k", <<>>)>>,
      <<TxOutput, Query(<<Variable(1)>>), Query(<<Variable(2), Variable(1)>>)>>,
      <<Pricing, PaymentChain, Query(<<Variable(1), Variable(2), Variable(1)>>)>>,
      <<PaymentRecipient(2), QueryEvents, Query(<<Variable(2), Variable(1)>>)>>,
      <<Query(<<>>), Query(<<Variable(1)>>), Query(<<Variable(1)>>),
        Query(<<Variable(2), Variable(3)>>)>> }

InitEnvState(roles) ==
    /\ cache = [i \in 1..Len(roles) |-> [value |-> NoValue, tick |-> -1]]
    /\ tick = 0
    /\ prom = <<>>
    /\ dirty = {}
    /\ last = NoCall

InitEnv ==
    /\ \E roles \in EnvRoleLists : order = EmptyOrder(roles)
    /\ InitEnvState(order.variables)
    /\ ctx = Ctx0
    /\ now = 0
    /\ proc = NoProcess
    /\ hist = NoHistory(order, now)

NextEnv ==
    \/ \E i \in VarIdxs, v \in SetValues : EnvSet(i, v)
    \/ \E i \in VarIdxs : EnvGet(i)
    \/ \E p \in 1..Len(prom), r \in EnvCallResults : CallReturn(p, r)

SpecEnv == InitEnv /\ [][NextEnv]_vars

\* The environment when every eth_call eventually returns: a pending compute
\* whose arguments are settled does not stay pending forever.
EthCallReturns(p) == p \in DOMAIN prom /\ \E r \in EnvCallResults : CallReturn(p, r)

\* The role lists the termination of get is checked on: a chain that ends
\* in a settable variable, and a diamond of Query variables.
LiveRoleLists ==
    { <<Query(<<Variable(2), Literal(Static(0))>>), Query(<<Variable(3)>>), Witness("k", <<>>)>>,
      <<Query(<<>>), Query(<<Variable(1)>>), Query(<<Variable(1)>>),
        Query(<<Variable(2), Variable(3)>>)>> }

InitEnvLive ==
    /\ \E roles \in LiveRoleLists : order = EmptyOrder(roles)
    /\ InitEnvState(order.variables)
    /\ ctx = Ctx0
    /\ now = 0
    /\ proc = NoProcess
    /\ hist = NoHistory(order, now)

SpecEnvLive ==
    InitEnvLive /\ [][NextEnv]_vars /\ \A p \in 1..MaxTick : WF_vars(EthCallReturns(p))

TypeOKEnv ==
    /\ tick \in 0..MaxTick
    /\ Len(prom) = tick
    /\ \A i \in VarIdxs : cache[i].value \in 0..Len(prom)

----------------------------------------------------------------------------
(* The call builder on bytes (src/src/env.ts).  A byte string is a sequence *)
(* of numbers in 0..255; size(hex) is its length.                           *)

MaxArgs == 3        \* cap on the number of arguments of a call

\* Variant: every value takes one 32-byte word in the heads.
headsSize_WordPerValue(abiEncodedValues) == 32 * Len(abiEncodedValues)

\* The first loop of abiEncodeFunctionCall: nextDynHead after it, the size
\* of the heads.
RECURSIVE headsSize(_)
headsSize(abiEncodedValues) ==
    IF abiEncodedValues = <<>> THEN 0
    ELSE LET v == Head(abiEncodedValues)
         IN  (IF v.type = "Dynamic" THEN 32 ELSE Len(v.encoding))
                + headsSize(Tail(abiEncodedValues))

\* The second loop of abiEncodeFunctionCall from value k on, with the tail
\* cursor nextDynHead: the heads and the tails pushed.
RECURSIVE headsAndTails(_, _, _)
headsAndTails(abiEncodedValues, k, nextDynHead) ==
    IF k > Len(abiEncodedValues) THEN [heads |-> <<>>, tails |-> <<>>]
    ELSE LET v == abiEncodedValues[k]
         IN  IF v.type = "Dynamic"
             THEN LET r == headsAndTails(abiEncodedValues, k + 1,
                                         nextDynHead + Len(v.encoding))
                  IN  [heads |-> <<numberToHex(nextDynHead, 32)>> \o r.heads,
                       tails |-> <<v.encoding>> \o r.tails]
             ELSE LET r == headsAndTails(abiEncodedValues, k + 1, nextDynHead)
                  IN  [heads |-> <<v.encoding>> \o r.heads, tails |-> r.tails]

\* abiEncodeFunctionCall: the error it throws, or the call data.
abiEncodeFunctionCall(selector, abiEncodedValues) ==
    IF Len(selector) # 4
    THEN [err |-> "Selector must be 4 bytes", data |-> <<>>]
    ELSE LET r == headsAndTails(abiEncodedValues, 1, headsSize(abiEncodedValues))
         IN  [err |-> "", data |-> concat(<<selector>> \o r.heads \o r.tails)]

\* A CallSpec.
CallSpec(selector, args) ==
    [target |-> Account("target", 1), selector |-> selector, arguments |-> args]

\* Inputs: byte strings with position-dependent content, static values of
\* one and of four words, dynamic values of one to three words, selectors
\* of three, four and five bytes.
Bytes(len, b) == [i \in 1..len |-> (b + i) % 256]

AbiValues ==
    { Static(Bytes(32, 10)), Static(Bytes(128, 250)),
      Dynamic(Bytes(32, 60)), Dynamic(Bytes(64, 90)), Dynamic(Bytes(96, 120)) }

Selectors == { Bytes(3, 0), Bytes(4, 0), Bytes(5, 0) }

AbiValueLists == UNION { [1..n -> AbiValues] : n \in 0..MaxArgs }

CallSpecs ==
    { CallSpec(sel, [k \in DOMAIN vs |-> Literal(vs[k])]) :
        sel \in Selectors, vs \in AbiValueLists }

\* Wire blobs handed to decodeAbiWrappedValue: the dynamic prefix followed
\* by nothing, one or two words; a header word, an encoding of zero, one or
\* two words (one of them the words 0x60, 0x00) and a padding word, with the
\* header equal to the length of the encoding, one more, or 32 more (the
\* offset the outer tuple encoding carries), and the padding zero, non-zero
\* or missing; blobs shorter than a word or with a header that is no length.
StaticEncodings == { <<>>, Bytes(32, 10), numberToHex(96, 32) \o ZERO, Bytes(64, 20) }

DynamicEncodings == { <<>>, Bytes(32, 60), Bytes(64, 90) }

WireBlobs ==
    { DYN_PREFIX \o d : d \in DynamicEncodings }
    \cup { numberToHex(h, 32) \o e \o pad :
             e \in StaticEncodings, h \in {0, 32, 33, 64, 65, 96},
             pad \in {ZERO, [ZERO EXCEPT ![32] = 1], <<>>} }
    \cup { <<>>, Bytes(5, 0), Bytes(32, 10) \o ZERO \o ZERO }

\* Values handed to abiEncode, as the ABI encoding of the value and whether
\* its type is dynamic: the uint256 1, 96 and 1000, an address, a static
\* pair, a bytes and a string value.
AbiEncodeInputs ==
    { [dynamic |-> FALSE, encoding |-> e] :
        e \in {numberToHex(1, 32), numberToHex(96, 32), numberToHex(1000, 32),
               Bytes(32, 10), numberToHex(96, 32) \o ZERO} }
    \cup { [dynamic |-> TRUE, encoding |-> e] : e \in {Bytes(64, 60), Bytes(96, 90)} }

----------------------------------------------------------------------------
(* resolve (src/unnamed/part_002): decoding the resolver's answer.  Encoded  *)
(* function data is given as the function name and the arguments that       *)
(* decodeFunctionData finds in it; accounts and arguments are byte strings. *)
(* A wire index k (0-based) is the index k + 1 here.                         *)

MaxAttrs == 2       \* cap on the number of attribute entries of a step

Fn(name, args) == [functionName |-> name, args |-> args]

attributeAbi ==
    {"SpendsERC20", "SpendsEstimatedGas", "RequiredBefore", "RequiredFillerUntil",
     "RequiredCallResult", "WithTimestamp", "WithBlockNumber", "WithEffectiveGasPrice"}
formulaAbi == {"Constant", "Variable"}
variableRoleAbi == {"PaymentRecipient", "PaymentChain", "Pricing", "TxOutput", "Witness", "Query"}

\* decodeFunctionData({ abi, data }): throws when the abi has no function
\* with the selector of data.
decodeFunctionData(abi, data) ==
    IF data.functionName \in abi THEN Ok(data)
    ELSE Err("Encoded function signature not found on ABI")

\* toSafeNumber; Huge stands for the numbers above MAX_SAFE_INTEGER too.
toSafeNumber(value) ==
    IF value >= Huge THEN Err("Number out of safe integer range") ELSE Ok(value)

\* Array.map with a function that may throw: the error of the first element
\* that throws ("" when none does), and the values.
FirstErr(rs) ==
    LET bad == {k \in DOMAIN rs : rs[k].err # ""}
    IN  IF bad = {} THEN "" ELSE rs[CHOOSE k \in bad : \A j \in bad : k <= j].err
Vals(rs) == [k \in DOMAIN rs |-> rs[k].value]

\* The element of a singleton set: The({e : x \in {v}}) is e for x = v.
The(S) == CHOOSE x \in S : TRUE

\* toHex of an Address; a one-byte slice is the number of its byte.
decodeERC7930Address(binary) ==
    IF slice(binary, 0, 2) # <<0, 1>> THEN Err("Unsupported ERC-7930 version")
    ELSE IF sliceThrows(binary, 2) THEN Err("Slice offset out of bounds")
    ELSE IF slice(binary, 2, 4) # <<0, 0>> THEN Err("Unsupported chain type")
    ELSE IF sliceThrows(binary, 4) \/ sliceThrows(binary, 5)
            \/ sliceThrows(binary, 5 + binary[5]) \/ sliceThrows(binary, 6 + binary[5])
    THEN Err("Slice offset out of bounds")
    ELSE The({ IF Len(address) # 20 THEN Err("Address is invalid")
               ELSE IF chainRef = <<>> THEN Err("Cannot convert 0x to a BigInt")
               ELSE Ok(Account(address, hexToNumber(chainRef))) :
               chainRef \in {slice(binary, 5, 5 + binary[5])},
               address \in {slice(binary, 6 + binary[5],
                                  6 + binary[5] + binary[6 + binary[5]])} })

decodeArgument(encoded) ==
    IF Len(encoded) = 32 THEN Ok(Variable(hexToNumber(encoded) + 1))
    ELSE The({ IF r.err # "" THEN r ELSE Ok(Literal(r.value)) :
               r \in {decodeAbiWrappedValue(encoded)} })

decodeFormula(encoded) ==
    IF decodeFunctionData(formulaAbi, encoded).err # ""
    THEN decodeFunctionData(formulaAbi, encoded)
    ELSE IF encoded.functionName = "Constant" THEN Ok(Constant(encoded.args.val))
    ELSE IF toSafeNumber(encoded.args.varIdx).err # "" THEN toSafeNumber(encoded.args.varIdx)
    ELSE Ok(VarRef(encoded.args.varIdx + 1))

\* decodeAttribute: the type of the attribute and its fields.
decodeAttribute(encoded) ==
    LET args == encoded.args
        Is(attr) == Ok([type |-> encoded.functionName, attr |-> attr])
        Index(value, field) ==
            IF toSafeNumber(value).err # "" THEN toSafeNumber(value)
            ELSE Is([f \in {field} |-> value + 1])
    IN  IF decodeFunctionData(attributeAbi, encoded).err # ""
        THEN decodeFunctionData(attributeAbi, encoded)
        ELSE CASE encoded.functionName = "SpendsERC20" ->
                    The({ IF FirstErr(rs) # "" THEN Err(FirstErr(rs))
                          ELSE Is([token |-> rs[1].value, amountFormula |-> rs[2].value,
                                   spender |-> rs[3].value, receiver |-> rs[4].value]) :
                          rs \in {<<decodeERC7930Address(args.token),
                                    decodeFormula(args.amountFormula),
                                    decodeERC7930Address(args.spender),
                                    decodeERC7930Address(args.receiver)>>} })
               [] encoded.functionName = "SpendsEstimatedGas" ->
                    The({ IF f.err # "" THEN f ELSE Is([amountFormula |-> f.value]) :
                          f \in {decodeFormula(args.amountFormula)} })
               [] encoded.functionName = "RequiredBefore" -> Is([deadline |-> args.deadline])
               [] encoded.functionName = "RequiredFillerUntil" ->
                    Is([exclusiveFiller |-> args.exclusiveFiller, deadline |-> args.deadline])
               [] encoded.functionName = "RequiredCallResult" ->
                    The({ IF target.err # "" THEN target
                          ELSE IF FirstErr(as) # "" THEN Err(FirstErr(as))
                          ELSE Is([target |-> target.value, selector |-> args.selector,
                                   arguments |-> Vals(as), result |-> args.result]) :
                          target \in {decodeERC7930Address(args.target)},
                          as \in {[k \in DOMAIN args.arguments |->
                                      decodeArgument(args.arguments[k])]} })
               [] encoded.functionName = "WithTimestamp" ->
                    Index(args.timestampVarIdx, "timestampVarIdx")
               [] encoded.functionName = "WithBlockNumber" ->
                    Index(args.blockNumberVarIdx, "blockNumberVarIdx")
               [] encoded.functionName = "WithEffectiveGasPrice" ->
                    Index(args.gasPriceVarIdx, "gasPriceVarIdx")

\* The Attributes record decodeAttributes starts from: the two lists are
\* empty, no singleton attribute is present.
EmptyAttributes == [t \in attributeAbi \cup {"RevertPolicy"} |-> <<>>]

\* Variant: a second entry of a singleton kind replaces the first.
RECURSIVE decodeAttributes_LastWins(_, _, _)
decodeAttributes_LastWins(encoded, k, attributes) ==
    IF k > Len(encoded) THEN Ok(attributes)
    ELSE The({ IF decoded.err # "" THEN decoded
               ELSE IF decoded.value.type \in {"SpendsERC20", "RevertPolicy"}
               THEN decodeAttributes_LastWins(encoded, k + 1,
                        [attributes EXCEPT ![decoded.value.type] = Append(@, decoded.value.attr)])
               ELSE decodeAttributes_LastWins(encoded, k + 1,
                        [attributes EXCEPT ![decoded.value.type] = <<decoded.value.attr>>]) :
               decoded \in {decodeAttribute(encoded[k])} })

\* The loop of decodeAttributes from entry k on.
RECURSIVE decodeAttributes(_, _, _)
decodeAttributes(encoded, k, attributes) ==
    IF k > Len(encoded) THEN Ok(attributes)
    ELSE The({ IF decoded.err # "" THEN decoded
               ELSE IF decoded.value.type \in {"SpendsERC20", "RevertPolicy"}
               THEN decodeAttributes(encoded, k + 1,
                        [attributes EXCEPT ![decoded.value.type] = Append(@, decoded.value.attr)])
               ELSE IF attributes[decoded.value.type] # <<>>
               THEN Err("Multiple attributes")
               ELSE decodeAttributes(encoded, k + 1,
                        [attributes EXCEPT ![decoded.value.type] = <<decoded.value.attr>>]) :
               decoded \in {decodeAttribute(encoded[k])} })

decodePayment(encoded) ==
    IF encoded.functionName # "ERC20" THEN Err("Encoded function signature not found on ABI")
    ELSE The({ IF FirstErr(rs) # "" THEN Err(FirstErr(rs))
               ELSE Ok([type |-> "ERC20", token |-> rs[1].value, sender |-> rs[2].value,
                        amountFormula |-> rs[3].value,
                        recipientVarIdx |-> rs[4].value + 1,
                        estimatedDelaySeconds |-> encoded.args.estimatedDelaySeconds]) :
               rs \in {<<decodeERC7930Address(encoded.args.token),
                         decodeERC7930Address(encoded.args.sender),
                         decodeFormula(encoded.args.amountFormula),
                         toSafeNumber(encoded.args.recipientVarIdx)>>} })

decodeVariableRole(encoded) ==
    LET args == encoded.args
    IN  IF decodeFunctionData(variableRoleAbi, encoded).err # ""
        THEN decodeFunctionData(variableRoleAbi, encoded)
        ELSE CASE encoded.functionName = "PaymentRecipient" -> Ok(PaymentRecipient(args.chainId))
               [] encoded.functionName = "Witness" ->
                    The({ IF FirstErr(vs) # "" THEN Err(FirstErr(vs))
                          ELSE Ok(Witness(args.kind, [k \in DOMAIN vs |-> vs[k].value + 1])) :
                          vs \in {[k \in DOMAIN args.variables |->
                                      toSafeNumber(args.variables[k])]} })
               [] encoded.functionName = "Query" ->
                    The({ IF target.err # "" THEN target
                          ELSE IF FirstErr(as) # "" THEN Err(FirstErr(as))
                          ELSE Ok(Query(Vals(as))) :
                          target \in {decodeERC7930Address(args.target)},
                          as \in {[k \in DOMAIN args.arguments |->
                                      decodeArgument(args.arguments[k])]} })
               [] OTHER -> Ok([type |-> encoded.functionName])

decodeStep(data) ==
    IF data.functionName # "Call" THEN Err("Encoded function signature not found on ABI")
    ELSE The({ IF target.err # "" THEN target
               ELSE IF FirstErr(as) # "" THEN Err(FirstErr(as))
               ELSE IF attributes.err # "" THEN attributes
               ELSE IF FirstErr(payments) # "" THEN Err(FirstErr(payments))
               ELSE Ok([type |-> "Call", target |-> target.value,
                        selector |-> data.args.selector, arguments |-> Vals(as),
                        attributes |-> attributes.value, payments |-> Vals(payments)]) :
               target \in {decodeERC7930Address(data.args.target)},
               as \in {[k \in DOMAIN data.args.arguments |->
                           decodeArgument(data.args.arguments[k])]},
               attributes \in {decodeAttributes(data.args.attributes, 1, EmptyAttributes)},
               payments \in {[k \in DOMAIN data.args.payments |->
                                 decodePayment(data.args.payments[k])]} })

\* resolve after readContract has answered result: the four lists are
\* decoded in the order steps, variables, assumptions, payments.
resolve(result) ==
    The({ IF FirstErr(steps) # "" THEN Err(FirstErr(steps))
          ELSE IF FirstErr(variables) # "" THEN Err(FirstErr(variables))
          ELSE IF FirstErr(assumptions) # "" THEN Err(FirstErr(assumptions))
          ELSE IF FirstErr(payments) # "" THEN Err(FirstErr(payments))
          ELSE Ok([steps |-> Vals(steps), variables |-> Vals(variables),
                   assumptions |-> [k \in DOMAIN assumptions |->
                                       [trusted |-> assumptions[k].value,
                                        kind |-> result.assumptions[k].kind]],
                   payments |-> Vals(payments)]) :
          steps \in {[k \in DOMAIN result.steps |-> decodeStep(result.steps[k])]},
          variables \in {[k \in DOMAIN result.variables |->
                             decodeVariableRole(result.variables[k])]},
          assumptions \in {[k \in DOMAIN result.assumptions |->
                               decodeERC7930Address(result.assumptions[k].trusted)]},
          payments \in {[k \in DOMAIN result.payments |->
                            decodePayment(result.payments[k])]} })

\* Answers of a resolver: one step, two variables.  The wire indices are 0
\* and 1 (in range), 2 (out of range) and Huge; the attribute entries cover
\* every kind, two of them twice with different contents, and an entry
\* (RevertPolicy) the abi does not have.
Addr(c) == <<0, 1, 0, 0, 1, c, 20>> \o Bytes(20, 7)

RawAttributes ==
    { Fn("SpendsERC20", [token |-> Addr(1), amountFormula |-> Fn("Constant", [val |-> 1]),
                         spender |-> Addr(1), receiver |-> Addr(2)]),
      Fn("SpendsERC20", [token |-> Addr(2), amountFormula |-> Fn("Variable", [varIdx |-> 2]),
                         spender |-> Addr(1), receiver |-> Addr(2)]),
      Fn("SpendsEstimatedGas", [amountFormula |-> Fn("Variable", [varIdx |-> 1])]),
      Fn("SpendsEstimatedGas", [amountFormula |-> Fn("Constant", [val |-> 0])]),
      Fn("RequiredBefore", [deadline |-> 5000]),
      Fn("RequiredFillerUntil", [exclusiveFiller |-> <<"a", "b">>, deadline |-> 700]),
      Fn("RequiredCallResult", [target |-> Addr(1), selector |-> Bytes(4, 0),
                                arguments |-> <<numberToHex(2, 32)>>, result |-> <<>>]),
      Fn("WithTimestamp", [timestampVarIdx |-> 0]),
      Fn("WithTimestamp", [timestampVarIdx |-> 1]),
      Fn("WithBlockNumber", [blockNumberVarIdx |-> 2]),
      Fn("WithEffectiveGasPrice", [gasPriceVarIdx |-> Huge]),
      Fn("RevertPolicy", [policy |-> "drop", expectedReason |-> <<>>]) }

RawPayment(recipientVarIdx) ==
    Fn("ERC20", [token |-> Addr(1), sender |-> Addr(1),
                 amountFormula |-> Fn("Constant", [val |-> 1]),
                 recipientVarIdx |-> recipientVarIdx, estimatedDelaySeconds |-> 0])

RawOrders ==
    { [steps |-> <<Fn("Call", [target |-> target, selector |-> Bytes(4, 0),
                               arguments |-> arguments, attributes |-> attributes,
                               payments |-> payments])>>,
       variables |-> variables,
       assumptions |-> <<[trusted |-> Addr(1), kind |-> "oracle"]>>,
       payments |-> payments] :
        target \in {Addr(1)},
        arguments \in {<<>>, <<numberToHex(0, 32), Bytes(32, 10) \o ZERO \o ZERO>>,
                       <<numberToHex(2, 32)>>,
                       <<numberToHex(1, 32), numberToHex(32, 32) \o Bytes(32, 10) \o ZERO>>},
        attributes \in UNION { [1..n -> RawAttributes] : n \in 0..MaxAttrs },
        payments \in {<<>>, <<RawPayment(1)>>, <<RawPayment(2)>>},
        variables \in {<<Fn("TxOutput", <<>>),
                         Fn("Query", [target |-> Addr(1), selector |-> Bytes(4, 0),
                                      arguments |-> <<numberToHex(0, 32)>>, blockNumber |-> 0])>>,
                       <<Fn("Witness", [kind |-> "k", data |-> <<>>, variables |-> <<1, 2>>]),
                         Fn("PaymentChain", <<>>)>>} }

\* A call of one of the functions: its argument, and once it has returned
\* its result ("ok" or the error thrown), the call data or the value.
CallOf(fn, input) ==
    [fn |-> fn, pc |-> "call", input |-> input, result |-> "running", data |-> <<>>,
     value |-> <<>>]

Returned(r) == [proc EXCEPT !.pc = "done", !.result = IF r.err = "" THEN "ok" ELSE r.err]

\* buildCallData(env, spec) for a spec whose arguments are all literal:
\* argValues are the literals, no variable is read.
BuildLiteralCall ==
    /\ proc.fn = "buildCallData" /\ proc.pc = "call"
    /\ LET spec == order.steps[1]
           argValues == [k \in DOMAIN spec.arguments |-> spec.arguments[k].value]
           r == abiEncodeFunctionCall(spec.selector, argValues)
       IN  proc' = [Returned(r) EXCEPT !.data = r.data]
    /\ UNCHANGED <<order, cache, tick, prom, dirty, last, ctx, now, hist>>

\* decodeAbiWrappedValue(encoded).
DecodeWire ==
    /\ proc.fn = "decodeAbiWrappedValue" /\ proc.pc = "call"
    /\ LET r == decodeAbiWrappedValue(proc.input)
       IN  proc' = [Returned(r) EXCEPT !.value = IF r.err = "" THEN <<r.value>> ELSE <<>>]
    /\ UNCHANGED <<order, cache, tick, prom, dirty, last, ctx, now, hist>>

\* resolve(client, resolver, payload) once the resolver has answered.
Resolve ==
    /\ proc.fn = "resolve" /\ proc.pc = "call"
    /\ LET r == resolve(proc.input)
       IN  proc' = [Returned(r) EXCEPT !.value = IF r.err = "" THEN <<r.value>> ELSE <<>>]
    /\ UNCHANGED <<order, cache, tick, prom, dirty, last, ctx, now, hist>>

\* abiEncode(value, type).
AbiEncode ==
    /\ proc.fn = "abiEncode" /\ proc.pc = "call"
    /\ LET r == abiEncodeAs(proc.input.dynamic, proc.input.encoding)
       IN  proc' = [Returned(r) EXCEPT !.value = IF r.err = "" THEN <<r.value>> ELSE <<>>]
    /\ UNCHANGED <<order, cache, tick, prom, dirty, last, ctx, now, hist>>

InitAbi ==
    /\ \/ \E spec \in CallSpecs :
             /\ order = [steps |-> <<spec>>, variables |-> <<>>, assumptions |-> <<>>,
                         payments |-> <<>>]
             /\ proc = CallOf("buildCallData", <<>>)
       \/ \E encoded \in WireBlobs :
             /\ order = EmptyOrder(<<>>)
             /\ proc = CallOf("decodeAbiWrappedValue", encoded)
       \/ \E input \in AbiEncodeInputs :
             /\ order = EmptyOrder(<<>>)
             /\ proc = CallOf("abiEncode", input)
       \/ \E result \in RawOrders :
             /\ order = EmptyOrder(<<>>)
             /\ proc = CallOf("resolve", result)
    /\ InitEnvState(order.variables)
    /\ ctx = Ctx0
    /\ now = 0
    /\ hist = <<>>

NextAbi ==
    \/ BuildLiteralCall
    \/ DecodeWire
    \/ AbiEncode
    \/ Resolve

SpecAbi == InitAbi /\ [][NextAbi]_vars

----------------------------------------------------------------------------
(* process(ctx, order): preflight, quote, fill (src/src/loop.ts,            *)
(* src/src/quote.ts, src/src/fill.ts).  One action per synchronous run      *)
(* between two suspension points; the result of each chain request is an    *)
(* input of the action that resumes after it.                               *)

RevertDatas == {<<"d", "e", "a", "d">>, <<"D", "E">>, <<"b", "e">>}
GasUsedValues == {0, 3}
BlockNumbers == {1000, 1001}
Timestamps == {12345}
GasPrices == {7}
WitnessValues == {Static(5), Dynamic(0)}

\* Results of publicClient.simulateCalls (status "error": the request threw).
SimResults ==
    {[status |-> "success", data |-> <<>>, gasUsed |-> g] : g \in GasUsedValues}
    \cup {[status |-> "failure", data |-> d, gasUsed |-> 0] : d \in RevertDatas}
    \cup {[status |-> "error", data |-> <<>>, gasUsed |-> 0]}

\* Results of publicClient.waitForTransactionReceipt.
Receipts ==
    {[status |-> st, blockNumber |-> b, effectiveGasPrice |-> g] :
        st \in {"success", "reverted"}, b \in BlockNumbers, g \in GasPrices}
    \cup {[status |-> "error", blockNumber |-> 0, effectiveGasPrice |-> 0]}

\* Results of publicClient.getBlock.
Blocks == {[timestamp |-> t, err |-> ""] : t \in Timestamps}
          \cup {[timestamp |-> 0, err |-> "transport error"]}

\* Results of a witness resolver's resolve.
WitnessResults == {[value |-> v, err |-> ""] : v \in WitnessValues}
                  \cup {[value |-> Nothing, err |-> "witness error"]}

Steps == order.steps
CurStep == order.steps[proc.stepIdx]

AnyErr(ids) == \E k \in 1..Len(ids) : prom[ids[k]].state = "err"
AllOk(ids) == \A k \in 1..Len(ids) : prom[ids[k]].state = "ok"
SomeErr(ids) == prom[ids[CHOOSE k \in 1..Len(ids) : prom[ids[k]].state = "err"]].err

\* An error thrown out of process: it rejects the promise process returned.
Throw(msg) == [proc EXCEPT !.pc = "done", !.result = msg]

\* An error thrown inside fill, while the current step is being processed.
ThrowInStep(msg) ==
    /\ proc' = [proc EXCEPT !.pc = "done", !.result = msg, !.filled = "error"]
    /\ hist' = [hist EXCEPT !.outcome[proc.stepIdx] = "FATAL"]

\* The environment after the synchronous env.get calls of an action.
AfterGets(e) ==
    /\ Install(e)
    /\ dirty' = dirty \ Range(e.started)

\* The environment after the env.set calls of an action on variables vs.
AfterSets(e, vs) ==
    /\ Install(e)
    /\ dirty' = dirty \cup UNION {Dependents(Roles, v) : v \in vs}

\* Variant: the error of preflight is not thrown.
Preflight_IgnoresErrors ==
    /\ proc.pc = "preflight"
    /\ proc' = [proc EXCEPT !.pc = "quote"]
    /\ UNCHANGED <<order, cache, tick, prom, dirty, last, ctx, now, hist>>

Preflight ==
    /\ proc.pc = "preflight"
    /\ LET err == preflight(ctx, order, now)
       IN  proc' = IF err # "" THEN Throw(err) ELSE [proc EXCEPT !.pc = "quote"]
    /\ UNCHANGED <<order, cache, tick, prom, dirty, last, ctx, now, hist>>

\* Variant: Pricing variables are let through.
QuoteStart_PricingAllowed ==
    /\ proc.pc = "quote"
    /\ IF collectFlowFormulas(order).err # ""
       THEN /\ proc' = Throw(collectFlowFormulas(order).err)
            /\ UNCHANGED cache
       ELSE /\ proc' = [proc EXCEPT !.pc = "q_flow", !.flowIdx = 1]
            /\ cache' = [i \in 1..Len(order.variables) |-> [value |-> NoValue, tick |-> -1]]
    /\ UNCHANGED <<order, tick, prom, dirty, last, ctx, now, hist>>

\* Variant: the Pricing variables are looked for before the flows are
\* collected.
QuoteStart_PricingFirst ==
    /\ proc.pc = "quote"
    /\ IF Len(collectPricingVars(order)) > 0
       THEN /\ proc' = Throw("Pricing variables not supported")
            /\ UNCHANGED cache
       ELSE IF collectFlowFormulas(order).err # ""
       THEN /\ proc' = Throw(collectFlowFormulas(order).err)
            /\ UNCHANGED cache
       ELSE /\ proc' = [proc EXCEPT !.pc = "q_flow", !.flowIdx = 1]
            /\ cache' = [i \in 1..Len(order.variables) |-> [value |-> NoValue, tick |-> -1]]
    /\ UNCHANGED <<order, tick, prom, dirty, last, ctx, now, hist>>

\* quote up to computeFlowAmounts: collectFlowFormulas, collectPricingVars,
\* new VariableEnv.
QuoteStart ==
    /\ proc.pc = "quote"
    /\ IF collectFlowFormulas(order).err # ""
       THEN /\ proc' = Throw(collectFlowFormulas(order).err)
            /\ UNCHANGED cache
       ELSE IF Len(collectPricingVars(order)) > 0
       THEN /\ proc' = Throw("Pricing variables not supported")
            /\ UNCHANGED cache
       ELSE /\ proc' = [proc EXCEPT !.pc = "q_flow", !.flowIdx = 1]
            /\ cache' = [i \in 1..Len(order.variables) |-> [value |-> NoValue, tick |-> -1]]
    /\ UNCHANGED <<order, tick, prom, dirty, last, ctx, now, hist>>

Flows == collectFlowFormulas(order).flows
CurFlow == Flows[proc.flowIdx]

\* Variant: a gas formula that evaluates to 0 counts as no estimate, and the
\* step is simulated.
QuoteFlowConstant_ZeroSimulates ==
    /\ proc.pc = "q_flow" /\ proc.flowIdx <= Len(Flows)
    /\ CurFlow.amount # <<>> /\ CurFlow.amount[1].type = "Constant"
    /\ IF CurFlow.token = "gas" /\ CurFlow.amount[1].value = 0
       THEN LET r == buildCallData(Roles, TheEnv, Steps[CurFlow.step].arguments, 1)
            IN  /\ AfterGets(r.env)
                /\ proc' = [proc EXCEPT !.pc = "q_sim", !.wait = r.awaits]
       ELSE /\ proc' = [proc EXCEPT !.amounts = Append(@, CurFlow.amount[1].value),
                                    !.flowIdx = @ + 1]
            /\ UNCHANGED <<cache, tick, prom, dirty>>
    /\ UNCHANGED <<order, last, ctx, now, hist>>

\* computeFlowAmounts, a flow whose amount is a Constant formula.
QuoteFlowConstant ==
    /\ proc.pc = "q_flow" /\ proc.flowIdx <= Len(Flows)
    /\ CurFlow.amount # <<>> /\ CurFlow.amount[1].type = "Constant"
    /\ proc' = [proc EXCEPT !.amounts = Append(@, CurFlow.amount[1].value),
                            !.flowIdx = @ + 1]
    /\ UNCHANGED <<order, cache, tick, prom, dirty, last, ctx, now, hist>>

\* computeFlowAmounts, a flow whose amount is a Variable formula: envEval
\* calls env.get and awaits the promise.
QuoteFlowVariable ==
    /\ proc.pc = "q_flow" /\ proc.flowIdx <= Len(Flows)
    /\ CurFlow.amount # <<>> /\ CurFlow.amount[1].type = "Variable"
    /\ LET v == CurFlow.amount[1].varIdx
           e1 == get(Roles, TheEnv, v)
       IN  /\ AfterGets(e1)
           /\ proc' = [proc EXCEPT !.pc = "q_eval", !.wait = <<e1.cache[v].value>>]
    /\ UNCHANGED <<order, last, ctx, now, hist>>

\* envEval resumes with the variable's value.
QuoteEvalDone ==
    /\ proc.pc = "q_eval"
    /\ prom[proc.wait[1]].state # "pending"
    /\ LET p == prom[proc.wait[1]]
       IN  proc' = IF p.state = "err" THEN Throw(p.err)
                   ELSE IF p.value.type # "Static"
                   THEN Throw("Dynamic value used in formula")
                   ELSE [proc EXCEPT !.pc = "q_flow", !.wait = <<>>,
                                     !.amounts = Append(@, p.value.encoding),
                                     !.flowIdx = @ + 1]
    /\ UNCHANGED <<order, cache, tick, prom, dirty, last, ctx, now, hist>>

\* computeFlowAmounts, a gas flow without formula: envSimulateCall builds the
\* step's call data.
QuoteFlowSimulate ==
    /\ proc.pc = "q_flow" /\ proc.flowIdx <= Len(Flows)
    /\ CurFlow.amount = <<>>
    /\ LET r == buildCallData(Roles, TheEnv, Steps[CurFlow.step].arguments, 1)
       IN  /\ AfterGets(r.env)
           /\ proc' = [proc EXCEPT !.pc = "q_sim", !.wait = r.awaits]
    /\ UNCHANGED <<order, last, ctx, now, hist>>

\* envSimulateCall resumes: the call data is built (or an argument failed),
\* simulateCalls is issued and returns sim.
QuoteSimDone(sim) ==
    /\ proc.pc = "q_sim"
    /\ \/ /\ AnyErr(proc.wait)
          /\ proc' = Throw(SomeErr(proc.wait))
          /\ hist' = hist
       \/ /\ AllOk(proc.wait)
          /\ hist' = [hist EXCEPT !.io = @ \cup {"simulateCalls"}, !.gasSims = @ + 1]
          /\ proc' = IF sim.status = "error" THEN Throw("transport error")
                     ELSE IF sim.status # "success"
                     THEN [Throw("Gas simulation failed") EXCEPT !.simStatus = sim.status]
                     ELSE [proc EXCEPT !.pc = "q_flow", !.wait = <<>>,
                                       !.amounts = Append(@, sim.gasUsed),
                                       !.flowIdx = @ + 1, !.simStatus = sim.status]
    /\ UNCHANGED <<order, cache, tick, prom, dirty, last, ctx, now>>

\* Variant: a PnL of zero is rejected too.
QuoteFinish_ZeroRejected ==
    /\ proc.pc = "q_flow" /\ proc.flowIdx > Len(Flows)
    /\ proc' = IF computePnLUsd(ctx, Flows, proc.amounts) <= 0 THEN Throw("Negative PnL")
               ELSE [proc EXCEPT !.pc = "f_step", !.stepIdx = 1]
    /\ UNCHANGED <<order, cache, tick, prom, dirty, last, ctx, now, hist>>

\* quote after computeFlowAmounts: the PnL gate; process then calls fill.
QuoteFinish ==
    /\ proc.pc = "q_flow" /\ proc.flowIdx > Len(Flows)
    /\ proc' = IF computePnLUsd(ctx, Flows, proc.amounts) < 0 THEN Throw("Negative PnL")
               ELSE [proc EXCEPT !.pc = "f_step", !.stepIdx = 1]
    /\ UNCHANGED <<order, cache, tick, prom, dirty, last, ctx, now, hist>>

\* fill's loop head: the next step, or return true after the last one.
FillNextStep ==
    /\ proc.pc = "f_step"
    /\ IF proc.stepIdx > Len(Steps)
       THEN /\ proc' = [proc EXCEPT !.pc = "done", !.filled = "true", !.result = "resolved",
                                    !.revertData = <<>>, !.receipt = <<>>, !.block = <<>>]
            /\ hist' = hist
       ELSE /\ proc' = [proc EXCEPT !.pc = "f_witness", !.argIdx = 1, !.wait = <<>>,
                                    !.revertData = <<>>, !.receipt = <<>>, !.block = <<>>,
                                    !.sched = <<>>, !.simAt = <<>>]
            /\ hist' = [hist EXCEPT !.outcome[proc.stepIdx] = "ACTIVE"]
    /\ UNCHANGED <<order, cache, tick, prom, dirty, last, ctx, now>>

IsWitnessArg(arg) ==
    /\ arg.type = "Variable"
    /\ arg.varIdx \in VarIdxs
    /\ Roles[arg.varIdx].type = "Witness"

\* resolveStepWitnesses: the position of the next Witness argument at or
\* after k, 0 if there is none.
NextWitnessArg(args, k) ==
    IF \E m \in k..Len(args) : IsWitnessArg(args[m])
    THEN CHOOSE m \in k..Len(args) :
            IsWitnessArg(args[m]) /\ \A n \in k..(m - 1) : ~IsWitnessArg(args[n])
    ELSE 0

\* Variant: a witness whose kind has no resolver is left unresolved.
FillWitness_SkipsUnsupported ==
    /\ proc.pc = "f_witness"
    /\ LET k == NextWitnessArg(CurStep.arguments, proc.argIdx)
       IN  IF k = 0
           THEN /\ proc' = [proc EXCEPT !.pc = "f_schedule"]
                /\ UNCHANGED <<cache, tick, prom, dirty, hist>>
           ELSE LET role == Roles[CurStep.arguments[k].varIdx]
                IN  IF role.kind \notin ctx.witnessResolvers
                    THEN /\ proc' = [proc EXCEPT !.argIdx = k + 1]
                         /\ UNCHANGED <<cache, tick, prom, dirty, hist>>
                    ELSE LET r == buildCallData(Roles, TheEnv,
                                      [m \in 1..Len(role.variables) |->
                                          Variable(role.variables[m])], 1)
                         IN  /\ AfterGets(r.env)
                             /\ proc' = [proc EXCEPT !.pc = "f_witness_resolve",
                                                     !.argIdx = k, !.wait = r.awaits]
                             /\ hist' = [hist EXCEPT !.acts[proc.stepIdx] = @ \cup {"witness"}]
    /\ UNCHANGED <<order, last, ctx, now>>

\* resolveStepWitnesses up to its next suspension: skip the arguments that
\* are not witnesses; for a witness, look up the resolver and start reading
\* its sub-variables.
FillWitness ==
    /\ proc.pc = "f_witness"
    /\ LET k == NextWitnessArg(CurStep.arguments, proc.argIdx)
       IN  IF k = 0
           THEN /\ proc' = [proc EXCEPT !.pc = "f_schedule"]
                /\ UNCHANGED <<cache, tick, prom, dirty, hist>>
           ELSE LET role == Roles[CurStep.arguments[k].varIdx]
                IN  IF role.kind \notin ctx.witnessResolvers
                    THEN /\ ThrowInStep("Unsupported witness kind")
                         /\ UNCHANGED <<cache, tick, prom, dirty>>
                    ELSE LET r == buildCallData(Roles, TheEnv,
                                      [m \in 1..Len(role.variables) |->
                                          Variable(role.variables[m])], 1)
                         IN  /\ AfterGets(r.env)
                             /\ proc' = [proc EXCEPT !.pc = "f_witness_resolve",
                                                     !.argIdx = k, !.wait = r.awaits]
                             /\ hist' = [hist EXCEPT !.acts[proc.stepIdx] = @ \cup {"witness"}]
    /\ UNCHANGED <<order, last, ctx, now>>

\* resolveStepWitnesses resumes: the sub-variable values arrived (or one
\* failed), resolver.resolve returns w, env.set stores it.
FillWitnessResolve(w) ==
    /\ proc.pc = "f_witness_resolve"
    /\ \/ /\ AnyErr(proc.wait)
          /\ ThrowInStep(SomeErr(proc.wait))
          /\ UNCHANGED <<cache, tick, prom, dirty>>
       \/ /\ AllOk(proc.wait)
          /\ IF w.err # ""
             THEN /\ proc' = [proc EXCEPT !.pc = "done", !.result = w.err,
                                          !.filled = "error"]
                  /\ hist' = [hist EXCEPT !.outcome[proc.stepIdx] = "FATAL",
                                          !.resolves = @ \cup {CurStep.arguments[proc.argIdx].varIdx}]
                  /\ UNCHANGED <<cache, tick, prom, dirty>>
             ELSE /\ AfterSets(set(TheEnv, CurStep.arguments[proc.argIdx].varIdx, w.value),
                               {CurStep.arguments[proc.argIdx].varIdx})
                  /\ proc' = [proc EXCEPT !.pc = "f_witness", !.argIdx = @ + 1, !.wait = <<>>]
                  /\ hist' = [hist EXCEPT !.resolves = @ \cup {CurStep.arguments[proc.argIdx].varIdx}]
    /\ UNCHANGED <<order, last, ctx, now>>

\* After the scheduled timestamp is known: sleep if there is one.
Scheduled(ts) ==
    [proc EXCEPT !.pc = IF ts # <<>> THEN "f_sleep" ELSE "f_build",
                 !.sched = ts, !.wait = <<>>]

\* getStepExecutionTimestamp up to its suspension.
FillSchedule ==
    /\ proc.pc = "f_schedule"
    /\ IF CurStep.attributes.WithTimestamp # <<>>
       THEN LET v == CurStep.attributes.WithTimestamp[1].timestampVarIdx
                e1 == get(Roles, TheEnv, v)
            IN  /\ AfterGets(e1)
                /\ proc' = [proc EXCEPT !.pc = "f_schedule_ts", !.wait = <<e1.cache[v].value>>]
       ELSE /\ proc' = Scheduled(getStepExecutionTimestamp(ctx, CurStep, <<>>))
            /\ UNCHANGED <<cache, tick, prom, dirty>>
    /\ UNCHANGED <<order, last, ctx, now, hist>>

\* getStepExecutionTimestamp resumes with the WithTimestamp variable (a
\* rejected get is caught and counts as unknown).
FillScheduleKnown ==
    /\ proc.pc = "f_schedule_ts"
    /\ prom[proc.wait[1]].state # "pending"
    /\ LET p == prom[proc.wait[1]]
           known == IF p.state = "ok" /\ p.value.type = "Static"
                    THEN <<p.value.encoding>> ELSE <<>>
       IN  proc' = Scheduled(getStepExecutionTimestamp(ctx, CurStep, known))
    /\ UNCHANGED <<order, cache, tick, prom, dirty, last, ctx, now, hist>>

\* sleepUntilTimestamp: returns at once if the time has passed, otherwise
\* when the timer fires: at the timestamp, or at once when the delay is
\* more than setTimeout can hold.
FillSleep ==
    /\ proc.pc = "f_sleep"
    /\ now' = IF now >= proc.sched[1] \/ proc.sched[1] - now > TIMEOUT_MAX_SECONDS
              THEN now ELSE proc.sched[1]
    /\ proc' = [proc EXCEPT !.pc = "f_build"]
    /\ hist' = [hist EXCEPT !.acts[proc.stepIdx] = @ \cup {"sleep"}]
    /\ UNCHANGED <<order, cache, tick, prom, dirty, last, ctx>>

\* executeStep: buildCallData for the step's call.
FillBuild ==
    /\ proc.pc = "f_build"
    /\ LET r == buildCallData(Roles, TheEnv, CurStep.arguments, 1)
       IN  /\ AfterGets(r.env)
           /\ proc' = [proc EXCEPT !.pc = "f_presim", !.wait = r.awaits]
    /\ UNCHANGED <<order, last, ctx, now, hist>>

\* simulateRevert: the revert data of a failed simulation, <<>> otherwise.
simulateRevert(sim) == IF sim.status = "failure" THEN <<sim.data>> ELSE <<>>

\* Variant: the transaction is sent whatever the pre-simulation returned.
FillPreSimulate_SendsAnyway(sim) ==
    /\ proc.pc = "f_presim"
    /\ \/ /\ AnyErr(proc.wait)
          /\ ThrowInStep(SomeErr(proc.wait))
       \/ /\ AllOk(proc.wait)
          /\ IF sim.status = "error"
             THEN /\ proc' = [proc EXCEPT !.pc = "done", !.result = "transport error",
                                          !.filled = "error"]
                  /\ hist' = [hist EXCEPT !.outcome[proc.stepIdx] = "FATAL",
                                          !.io = @ \cup {"simulateCalls"},
                                          !.acts[proc.stepIdx] = @ \cup {"simulate"}]
             ELSE /\ proc' = [proc EXCEPT !.revertData = simulateRevert(sim),
                                          !.pc = "f_send"]
                  /\ hist' = [hist EXCEPT !.io = @ \cup {"simulateCalls"},
                                          !.acts[proc.stepIdx] = @ \cup {"simulate"},
                                          !.snap = [cache |-> cache, tick |-> tick]]
    /\ UNCHANGED <<order, cache, tick, prom, dirty, last, ctx, now>>

\* executeStep resumes with the call data: pre-simulation.
FillPreSimulate(sim) ==
    /\ proc.pc = "f_presim"
    /\ \/ /\ AnyErr(proc.wait)
          /\ ThrowInStep(SomeErr(proc.wait))
       \/ /\ AllOk(proc.wait)
          /\ IF sim.status = "error"
             THEN /\ proc' = [proc EXCEPT !.pc = "done", !.result = "transport error",
                                          !.filled = "error"]
                  /\ hist' = [hist EXCEPT !.outcome[proc.stepIdx] = "FATAL",
                                          !.io = @ \cup {"simulateCalls"},
                                          !.acts[proc.stepIdx] = @ \cup {"simulate"}]
             ELSE /\ proc' = [proc EXCEPT !.revertData = simulateRevert(sim),
                                          !.pc = IF simulateRevert(sim) = <<>>
                                                 THEN "f_send" ELSE "f_policy"]
                  /\ hist' = [hist EXCEPT !.io = @ \cup {"simulateCalls"},
                                          !.acts[proc.stepIdx] = @ \cup {"simulate"},
                                          !.snap = [cache |-> cache, tick |-> tick]]
    /\ UNCHANGED <<order, cache, tick, prom, dirty, last, ctx, now>>

\* Variant: the loop of fill does not await the step; the next step starts
\* as soon as the transaction is sent.
FillSend_NoAwait(ok) ==
    /\ proc.pc = "f_send"
    /\ IF ok
       THEN /\ proc' = [proc EXCEPT !.pc = "f_step", !.stepIdx = @ + 1]
            /\ hist' = [hist EXCEPT !.io = @ \cup {"sendTransaction"},
                                    !.sent[proc.stepIdx] = @ + 1,
                                    !.acts[proc.stepIdx] = @ \cup {"send"}]
       ELSE /\ proc' = [proc EXCEPT !.pc = "done", !.result = "transport error",
                                    !.filled = "error"]
            /\ hist' = [hist EXCEPT !.outcome[proc.stepIdx] = "FATAL",
                                    !.io = @ \cup {"sendTransaction"},
                                    !.sent[proc.stepIdx] = @ + 1,
                                    !.acts[proc.stepIdx] = @ \cup {"send"}]
    /\ UNCHANGED <<order, cache, tick, prom, dirty, last, ctx, now>>

\* walletClient.sendTransaction: a hash, or the request throws.
FillSend(ok) ==
    /\ proc.pc = "f_send"
    /\ IF ok
       THEN /\ proc' = [proc EXCEPT !.pc = "f_receipt"]
            /\ hist' = [hist EXCEPT !.io = @ \cup {"sendTransaction"},
                                    !.sent[proc.stepIdx] = @ + 1,
                                    !.acts[proc.stepIdx] = @ \cup {"send"}]
       ELSE /\ proc' = [proc EXCEPT !.pc = "done", !.result = "transport error",
                                    !.filled = "error"]
            /\ hist' = [hist EXCEPT !.outcome[proc.stepIdx] = "FATAL",
                                    !.io = @ \cup {"sendTransaction"},
                                    !.sent[proc.stepIdx] = @ + 1,
                                    !.acts[proc.stepIdx] = @ \cup {"send"}]
    /\ UNCHANGED <<order, cache, tick, prom, dirty, last, ctx, now>>

\* The env.set calls of applyTxOutputs in order; fail # "" is a request
\* (getBlock) that threw before the set, value is the outcome of abiEncode,
\* evaluated before the set is called.
TxOutputs(attrs, receipt, block) ==
    (IF attrs.WithBlockNumber # <<>>
     THEN <<[v |-> attrs.WithBlockNumber[1].blockNumberVarIdx,
             value |-> abiEncode(receipt.blockNumber), fail |-> ""]>>
     ELSE <<>>)
    \o (IF attrs.WithTimestamp # <<>>
        THEN <<[v |-> attrs.WithTimestamp[1].timestampVarIdx,
                value |-> abiEncode(block.timestamp), fail |-> block.err]>>
        ELSE <<>>)
    \o (IF attrs.WithEffectiveGasPrice # <<>>
        THEN <<[v |-> attrs.WithEffectiveGasPrice[1].gasPriceVarIdx,
                value |-> abiEncode(receipt.effectiveGasPrice), fail |-> ""]>>
        ELSE <<>>)

RECURSIVE applyTxOutputs(_, _, _, _)
applyTxOutputs(roles, e, outs, k) ==
    IF k > Len(outs) THEN [env |-> e, err |-> "", done |-> k - 1]
    ELSE IF outs[k].fail # "" THEN [env |-> e, err |-> outs[k].fail, done |-> k - 1]
    ELSE IF outs[k].value.err # ""
    THEN [env |-> e, err |-> outs[k].value.err, done |-> k - 1]
    ELSE IF ~CanSet(roles[outs[k].v]) THEN [env |-> e, err |-> "cannot be set", done |-> k - 1]
    ELSE applyTxOutputs(roles, set(e, outs[k].v, outs[k].value.value), outs, k + 1)

\* Variant: the block number is stored, as the word it is, before the
\* receipt's status is looked at.
FillReceipt_OutputsBeforeStatus(receipt) ==
    /\ proc.pc = "f_receipt"
    /\ IF receipt.status = "error"
       THEN /\ ThrowInStep("transport error")
            /\ UNCHANGED <<cache, tick, prom, dirty>>
       ELSE LET attrs == CurStep.attributes
                outs == IF attrs.WithBlockNumber # <<>>
                        THEN <<[v |-> attrs.WithBlockNumber[1].blockNumberVarIdx,
                                value |-> Ok(Static(receipt.blockNumber)), fail |-> ""]>>
                        ELSE <<>>
                r == applyTxOutputs(Roles, TheEnv, outs, 1)
            IN  /\ AfterSets(r.env, {outs[k].v : k \in 1..r.done})
                /\ proc' = [proc EXCEPT !.receipt = <<receipt>>,
                                        !.pc = IF receipt.status = "success"
                                               THEN "f_outputs" ELSE "f_resim"]
                /\ hist' = hist
    /\ UNCHANGED <<order, last, ctx, now>>

\* publicClient.waitForTransactionReceipt returns.
FillReceipt(receipt) ==
    /\ proc.pc = "f_receipt"
    /\ IF receipt.status = "error"
       THEN ThrowInStep("transport error")
       ELSE /\ proc' = [proc EXCEPT !.receipt = <<receipt>>,
                                    !.pc = IF receipt.status = "success"
                                           THEN "f_outputs" ELSE "f_resim"]
            /\ hist' = hist
    /\ UNCHANGED <<order, cache, tick, prom, dirty, last, ctx, now>>

\* executeStep after a successful receipt: applyTxOutputs, with the block
\* returned by getBlock when WithTimestamp is present; the step is complete.
FillOutputs(block) ==
    /\ proc.pc = "f_outputs"
    /\ LET outs == TxOutputs(CurStep.attributes, proc.receipt[1], block)
           r == applyTxOutputs(Roles, TheEnv, outs, 1)
           tsIdx == IF CurStep.attributes.WithBlockNumber # <<>> THEN 2 ELSE 1
           io == IF CurStep.attributes.WithTimestamp # <<>> /\ r.done >= tsIdx - 1
                 THEN {"getBlock"} ELSE {}
       IN  /\ AfterSets(r.env, {outs[k].v : k \in 1..r.done})
           /\ IF r.err # ""
              THEN /\ proc' = [proc EXCEPT !.pc = "done", !.result = r.err, !.filled = "error"]
                   /\ hist' = [hist EXCEPT !.outcome[proc.stepIdx] = "FATAL",
                                           !.io = @ \cup io]
              ELSE /\ proc' = [proc EXCEPT !.pc = "f_step", !.stepIdx = @ + 1,
                                           !.block = <<block>>]
                   /\ hist' = [hist EXCEPT !.outcome[proc.stepIdx] = "COMPLETED",
                                           !.io = @ \cup io]
    /\ UNCHANGED <<order, last, ctx, now>>

\* Variant: a reverted transaction whose re-simulation does not revert
\* counts as completed.
FillReSimulate_NoRevertCompletes(sim) ==
    /\ proc.pc = "f_resim"
    /\ IF sim.status = "error"
       THEN /\ proc' = [proc EXCEPT !.pc = "done", !.result = "transport error",
                                    !.filled = "error",
                                    !.simAt = <<proc.receipt[1].blockNumber>>]
            /\ hist' = [hist EXCEPT !.outcome[proc.stepIdx] = "FATAL",
                                    !.io = @ \cup {"simulateCalls"}]
       ELSE IF simulateRevert(sim) = <<>>
       THEN /\ proc' = [proc EXCEPT !.pc = "f_step", !.stepIdx = @ + 1,
                                    !.simAt = <<proc.receipt[1].blockNumber>>]
            /\ hist' = [hist EXCEPT !.outcome[proc.stepIdx] = "COMPLETED",
                                    !.io = @ \cup {"simulateCalls"}]
       ELSE /\ proc' = [proc EXCEPT !.revertData = simulateRevert(sim), !.pc = "f_policy",
                                    !.simAt = <<proc.receipt[1].blockNumber>>]
            /\ hist' = [hist EXCEPT !.io = @ \cup {"simulateCalls"}]
    /\ UNCHANGED <<order, cache, tick, prom, dirty, last, ctx, now>>

\* executeStep after a reverted receipt: simulateRevert at the receipt's
\* block (simAt is the blockNumber the simulation is asked for).
FillReSimulate(sim) ==
    /\ proc.pc = "f_resim"
    /\ IF sim.status = "error"
       THEN /\ proc' = [proc EXCEPT !.pc = "done", !.result = "transport error",
                                    !.filled = "error",
                                    !.simAt = <<proc.receipt[1].blockNumber>>]
            /\ hist' = [hist EXCEPT !.outcome[proc.stepIdx] = "FATAL",
                                    !.io = @ \cup {"simulateCalls"}]
       ELSE IF simulateRevert(sim) = <<>>
       THEN /\ proc' = [proc EXCEPT !.pc = "done", !.result = "resolver error",
                                    !.filled = "error",
                                    !.simAt = <<proc.receipt[1].blockNumber>>]
            /\ hist' = [hist EXCEPT !.outcome[proc.stepIdx] = "FATAL",
                                    !.io = @ \cup {"simulateCalls"}]
       ELSE /\ proc' = [proc EXCEPT !.revertData = simulateRevert(sim), !.pc = "f_policy",
                                    !.simAt = <<proc.receipt[1].blockNumber>>]
            /\ hist' = [hist EXCEPT !.io = @ \cup {"simulateCalls"}]
    /\ UNCHANGED <<order, cache, tick, prom, dirty, last, ctx, now>>

\* Variant: process raises an error when fill returns false.
FillPolicy_DropThrows ==
    /\ proc.pc = "f_policy"
    /\ LET policy == getMatchingRevertPolicy(CurStep, proc.revertData[1])
       IN  CASE policy = "drop" ->
                 /\ proc' = [proc EXCEPT !.pc = "done", !.filled = "false",
                                         !.result = "not filled"]
                 /\ hist' = [hist EXCEPT !.outcome[proc.stepIdx] = "DROPPED"]
             [] policy = "ignore" ->
                 /\ proc' = [proc EXCEPT !.pc = "f_step", !.stepIdx = @ + 1]
                 /\ hist' = [hist EXCEPT !.outcome[proc.stepIdx] = "IGNORED"]
             [] OTHER -> ThrowInStep("resolver error")
    /\ UNCHANGED <<order, cache, tick, prom, dirty, last, ctx, now>>

\* Variant: a drop policy lets fill go on like an ignore policy.
FillPolicy_DropContinues ==
    /\ proc.pc = "f_policy"
    /\ LET policy == getMatchingRevertPolicy(CurStep, proc.revertData[1])
       IN  CASE policy = "drop" ->
                 /\ proc' = [proc EXCEPT !.pc = "f_step", !.stepIdx = @ + 1]
                 /\ hist' = [hist EXCEPT !.outcome[proc.stepIdx] = "DROPPED"]
             [] policy = "ignore" ->
                 /\ proc' = [proc EXCEPT !.pc = "f_step", !.stepIdx = @ + 1]
                 /\ hist' = [hist EXCEPT !.outcome[proc.stepIdx] = "IGNORED"]
             [] OTHER -> ThrowInStep("resolver error")
    /\ UNCHANGED <<order, cache, tick, prom, dirty, last, ctx, now>>

\* Variant: an ignored revert makes the filler try the step again.
FillPolicy_IgnoreRetries ==
    /\ proc.pc = "f_policy"
    /\ LET policy == getMatchingRevertPolicy(CurStep, proc.revertData[1])
       IN  CASE policy = "drop" ->
                 /\ proc' = [proc EXCEPT !.pc = "done", !.filled = "false",
                                         !.result = "resolved"]
                 /\ hist' = [hist EXCEPT !.outcome[proc.stepIdx] = "DROPPED"]
             [] policy = "ignore" ->
                 /\ proc' = [proc EXCEPT !.pc = "f_send", !.revertData = <<>>,
                                         !.receipt = <<>>]
                 /\ hist' = hist
             [] OTHER -> ThrowInStep("resolver error")
    /\ UNCHANGED <<order, cache, tick, prom, dirty, last, ctx, now>>

\* executeStep with revert data: the step's revert policy decides; process
\* returns normally when fill returns false.
FillPolicy ==
    /\ proc.pc = "f_policy"
    /\ LET policy == getMatchingRevertPolicy(CurStep, proc.revertData[1])
       IN  CASE policy = "drop" ->
                 /\ proc' = [proc EXCEPT !.pc = "done", !.filled = "false",
                                         !.result = "resolved"]
                 /\ hist' = [hist EXCEPT !.outcome[proc.stepIdx] = "DROPPED"]
             [] policy = "ignore" ->
                 /\ proc' = [proc EXCEPT !.pc = "f_step", !.stepIdx = @ + 1]
                 /\ hist' = [hist EXCEPT !.outcome[proc.stepIdx] = "IGNORED"]
             [] OTHER -> ThrowInStep("resolver error")
    /\ UNCHANGED <<order, cache, tick, prom, dirty, last, ctx, now>>

----------------------------------------------------------------------------
(* The orders process is run on *)

MaxSteps == 3       \* longest step list of the generated orders

T == Account("T", 1)

Gas0 == [amountFormula |-> Constant(0)]
Spend(n) == [token |-> T, amountFormula |-> Constant(n)]
Policy(pol, reason) == [policy |-> pol, expectedReason |-> reason]

Plain == [NoAttributes EXCEPT !.SpendsEstimatedGas = <<Gas0>>]

\* Steps that differ in what preflight looks at.
PreflightSteps ==
    { Call_(1, <<>>, Plain, <<>>),
      Call_(1, <<>>, [Plain EXCEPT !.RevertPolicy = <<Policy("drop", <<"d", "e">>)>>], <<>>),
      Call_(1, <<>>, [Plain EXCEPT !.SpendsERC20 = <<Spend(1)>>], <<>>),
      Call_(1, <<>>, [Plain EXCEPT !.SpendsERC20 = <<Spend(1)>>,
                                   !.RevertPolicy = <<Policy("ignore", <<"b">>),
                                                      Policy("drop", <<>>)>>], <<>>),
      Call_(1, <<>>, [Plain EXCEPT !.RequiredBefore = <<[deadline |-> 601]>>,
                                   !.RevertPolicy = <<Policy("ignore", <<"D", "e">>)>>], <<>>),
      Call_(1, <<>>, [Plain EXCEPT !.RequiredBefore = <<[deadline |-> 602]>>], <<>>) }

SeqsUpTo(S, n) == UNION {[1..m -> S] : m \in 1..n}

PreflightInputs ==
    {[order |-> Order(steps, <<>>, <<>>, <<ERC20(T, Constant(MaxSteps), 0)>>),
      ctx |-> Ctx0, now |-> t] :
        steps \in SeqsUpTo(PreflightSteps, MaxSteps), t \in {0, 1, 2}}

\* Orders whose steps read and write variables.
OutputsOrder ==
    Order(<< Call_(1, <<>>,
                   [Plain EXCEPT !.WithBlockNumber = <<[blockNumberVarIdx |-> 1]>>,
                                 !.WithTimestamp = <<[timestampVarIdx |-> 2]>>,
                                 !.WithEffectiveGasPrice = <<[gasPriceVarIdx |-> 3]>>,
                                 !.RevertPolicy = <<Policy("ignore", <<"d", "e">>),
                                                    Policy("drop", <<>>)>>], <<>>),
             Call_(2, <<Variable(4), Variable(2)>>,
                   [Plain EXCEPT !.WithBlockNumber = <<[blockNumberVarIdx |-> 1]>>,
                                 !.RevertPolicy = <<Policy("ignore", <<"D", "E">>)>>], <<>>),
             Call_(1, <<Variable(4), Literal(Dynamic(0))>>,
                   [Plain EXCEPT !.WithTimestamp = <<[timestampVarIdx |-> 2]>>,
                                 !.SpendsERC20 = <<Spend(1)>>], <<ERC20(T, Constant(1), 0)>>) >>,
          <<TxOutput, TxOutput, TxOutput, Query(<<Variable(1)>>)>>, <<>>, <<>>)

AliasedOrder ==
    Order(<< Call_(1, <<>>,
                   [Plain EXCEPT !.WithBlockNumber = <<[blockNumberVarIdx |-> 1]>>,
                                 !.WithTimestamp = <<[timestampVarIdx |-> 1]>>,
                                 !.WithEffectiveGasPrice = <<[gasPriceVarIdx |-> 2]>>], <<>>),
             Call_(1, <<Variable(1), Variable(2)>>, Plain, <<>>) >>,
          <<TxOutput, TxOutput>>, <<>>, <<>>)

NotSettableOrder ==
    Order(<< Call_(1, <<>>,
                   [Plain EXCEPT !.WithBlockNumber = <<[blockNumberVarIdx |-> 2]>>,
                                 !.WithTimestamp = <<[timestampVarIdx |-> 1]>>,
                                 !.WithEffectiveGasPrice = <<[gasPriceVarIdx |-> 2]>>], <<>>),
             Call_(1, <<Variable(2)>>, Plain, <<>>) >>,
          <<PaymentChain, TxOutput>>, <<>>, <<>>)

WitnessOrder ==
    Order(<< Call_(1, <<Literal(Static(0)), Variable(1), Variable(3)>>,
                   [Plain EXCEPT !.RequiredFillerUntil =
                                     <<[exclusiveFiller |-> <<"a", "b">>, deadline |-> 700]>>], <<>>),
             Call_(1, <<Variable(1)>>,
                   [Plain EXCEPT !.RequiredFillerUntil =
                                     <<[exclusiveFiller |-> <<"f", "1">>, deadline |-> 800]>>], <<>>) >>,
          <<Witness("k", <<2>>), Query(<<Literal(Static(0))>>), Witness("k", <<>>)>>,
          <<[trusted |-> Oracle, kind |-> "oracle"]>>, <<>>)

\* Three steps without receipt outputs: a plain one, one whose revert is
\* ignored, one the filler has to wait for.
SequenceOrder ==
    Order(<< Call_(1, <<>>, Plain, <<>>),
             Call_(2, <<Variable(1)>>,
                   [Plain EXCEPT !.RevertPolicy = <<Policy("ignore", <<"D", "E">>)>>], <<>>),
             Call_(1, <<Variable(1)>>,
                   [Plain EXCEPT !.RequiredFillerUntil =
                                     <<[exclusiveFiller |-> <<"a", "b">>, deadline |-> 700]>>], <<>>) >>,
          <<Query(<<>>)>>, <<>>, <<>>)

\* Steps that differ in what the scheduling looks at: a timestamp variable
\* a witness resolver makes known, a deadline for a filler who is not the
\* exclusive one, an exclusive filler who is this filler (written in
\* another case), and a deadline more than TIMEOUT_MAX_SECONDS away.
ScheduleOrder ==
    Order(<< Call_(1, <<Variable(1)>>,
                   [Plain EXCEPT !.WithTimestamp = <<[timestampVarIdx |-> 1]>>,
                                 !.RequiredFillerUntil =
                                     <<[exclusiveFiller |-> <<"a", "b">>, deadline |-> 3]>>,
                                 !.RevertPolicy = <<Policy("ignore", <<>>)>>], <<>>),
             Call_(1, <<>>,
                   [Plain EXCEPT !.WithTimestamp = <<[timestampVarIdx |-> 1]>>,
                                 !.RequiredFillerUntil =
                                     <<[exclusiveFiller |-> <<"F", "1">>, deadline |-> 800]>>,
                                 !.RevertPolicy = <<Policy("ignore", <<>>)>>], <<>>),
             Call_(1, <<>>,
                   [Plain EXCEPT !.RequiredFillerUntil =
                                     <<[exclusiveFiller |-> <<"a", "b">>,
                                        deadline |-> 3000000]>>], <<>>) >>,
          <<Witness("k", <<>>)>>, <<>>, <<>>)

\* Witness variables a step reaches only through other variables: through
\* a Query argument after the witness was resolved for an earlier step,
\* through a Query argument without that, and as the sub-variable of a
\* witness argument.
ViaQueryOrder ==
    Order(<< Call_(1, <<Variable(1)>>,
                   [Plain EXCEPT !.RevertPolicy = <<Policy("ignore", <<>>)>>], <<>>),
             Call_(1, <<Variable(2)>>,
                   [Plain EXCEPT !.RevertPolicy = <<Policy("ignore", <<>>)>>], <<>>),
             Call_(1, <<Variable(1), Variable(4)>>,
                   [Plain EXCEPT !.RequiredFillerUntil =
                                     <<[exclusiveFiller |-> <<"a", "b">>, deadline |-> 700]>>], <<>>) >>,
          <<Witness("k", <<>>), Query(<<Variable(1)>>),
            Witness("k", <<>>), Query(<<Variable(3)>>)>>, <<>>, <<>>)

ViaWitnessOrder ==
    Order(<< Call_(1, <<Variable(2)>>,
                   [Plain EXCEPT !.RequiredFillerUntil =
                                     <<[exclusiveFiller |-> <<"a", "b">>, deadline |-> 700]>>], <<>>) >>,
          <<Witness("k", <<>>), Witness("k", <<1>>)>>, <<>>, <<>>)

FillInputs ==
    {[order |-> o, ctx |-> Ctx0, now |-> 0] :
        o \in {OutputsOrder, AliasedOrder, NotSettableOrder, WitnessOrder, SequenceOrder,
               ScheduleOrder, ViaQueryOrder, ViaWitnessOrder}}

\* Orders and contexts that differ in what the trust gate and the witness
\* support gate of preflight look at: assumptions that are whitelisted or
\* not, Witness variables whose kind has a resolver or not, referenced by a
\* step or not.
Mallory == Account("mallory", 1)

GateAssumptions ==
    { <<>>,
      <<[trusted |-> Oracle, kind |-> "oracle"]>>,
      <<[trusted |-> Oracle, kind |-> "oracle"], [trusted |-> Mallory, kind |-> "oracle"]>>,
      <<[trusted |-> Oracle, kind |-> "bridge"]>> }

GateVariables ==
    { <<>>,
      <<Witness("k", <<>>)>>,
      <<Witness("z", <<>>)>>,
      <<Witness("k", <<>>), Witness("z", <<>>)>> }

GateOrders ==
    {Order(<<Call_(1, args, Plain, <<>>)>>, roles, assumptions, <<>>) :
        args \in {<<>>, <<Variable(1)>>},
        roles \in GateVariables, assumptions \in GateAssumptions}

GateInputs ==
    {[order |-> o, ctx |-> c, now |-> 0] :
        o \in {g \in GateOrders : g.steps[1].arguments = <<>> \/ g.variables # <<>>},
        c \in {Ctx0, Ctx(<<"f", "1">>, {}, {})}}

\* Orders whose quote needs a value only fill provides: a step without
\* gas estimate whose argument is a Query over a Witness, after a step that
\* is simulated; a gas formula that is a TxOutput variable; a TxOutput
\* argument in a plan with a delayed payment, and in one with a Pricing
\* variable; a plan-level payment whose formula is a Witness variable.
BlindOrders ==
    { Order(<<Call_(1, <<>>, NoAttributes, <<>>),
              Call_(1, <<Literal(Static(0)), Variable(2)>>, NoAttributes, <<>>)>>,
            <<Witness("k", <<>>), Query(<<Variable(1)>>)>>, <<>>, <<>>),
      Order(<<Call_(1, <<Variable(1)>>,
                    [NoAttributes EXCEPT
                        !.SpendsEstimatedGas = <<[amountFormula |-> VarRef(1)]>>], <<>>)>>,
            <<TxOutput>>, <<>>, <<>>),
      Order(<<Call_(1, <<Variable(1)>>, NoAttributes, <<ERC20(T, Constant(1), 5)>>)>>,
            <<TxOutput>>, <<>>, <<>>),
      Order(<<Call_(1, <<Variable(1)>>, NoAttributes, <<>>)>>,
            <<TxOutput, Pricing>>, <<>>, <<>>),
      Order(<<Call_(1, <<>>, Plain, <<>>)>>, <<Witness("k", <<>>)>>, <<>>,
            <<ERC20(T, Constant(1), 0), ERC20(T, VarRef(1), 0)>>) }

\* Orders that differ in what quote looks at: a Pricing variable, delayed
\* payments, gas by simulation, Variable formulas, and the sign of the PnL.
QuoteOrders ==
    { Order(<<Call_(1, <<>>, Plain, <<>>)>>, <<Pricing>>, <<>>, <<>>),
      Order(<<Call_(1, <<>>, Plain, <<ERC20(T, Constant(1), 5)>>)>>, <<>>, <<>>, <<>>),
      Order(<<Call_(1, <<>>, Plain, <<>>)>>, <<Pricing>>, <<>>, <<ERC20(T, Constant(1), 5)>>),
      Order(<<Call_(1, <<Variable(1)>>, NoAttributes, <<ERC20(T, Constant(1), 0)>>)>>,
            <<Query(<<>>)>>, <<>>, <<ERC20(T, VarRef(1), 0), ERC20(T, Constant(1), 7)>>),
      Order(<<Call_(1, <<>>, NoAttributes, <<>>),
              Call_(1, <<>>, [NoAttributes EXCEPT
                                 !.SpendsEstimatedGas = <<[amountFormula |-> VarRef(1)]>>], <<>>),
              Call_(1, <<>>, NoAttributes, <<>>)>>,
            <<Query(<<>>)>>, <<>>, <<ERC20(T, Constant(4), 0)>>),
      Order(<<Call_(1, <<Variable(1), Variable(2)>>, NoAttributes, <<>>)>>,
            <<PaymentChain, Query(<<Variable(1)>>)>>, <<>>, <<ERC20(T, VarRef(2), 0)>>),
      Order(<<Call_(2, <<>>, [NoAttributes EXCEPT
                                 !.SpendsEstimatedGas = <<[amountFormula |-> VarRef(1)]>>],
                    <<ERC20(T, VarRef(2), 0)>>)>>,
            <<Query(<<>>), PaymentRecipient(1)>>, <<>>, <<>>) }
    \cup { Order(<<Call_(1, <<>>, [Plain EXCEPT !.SpendsERC20 = <<Spend(a)>>],
                       <<ERC20(T, Constant(b), 0)>>)>>, <<>>, <<>>, <<>>) :
             a \in 1..2, b \in 0..2 }
    \cup BlindOrders

QuoteInputs == {[order |-> o, ctx |-> Ctx0, now |-> 0] : o \in QuoteOrders}

Inputs == PreflightInputs \cup FillInputs \cup QuoteInputs \cup GateInputs

Init ==
    /\ \E inp \in Inputs : order = inp.order /\ ctx = inp.ctx /\ now = inp.now
    /\ cache = <<>>
    /\ tick = 0
    /\ prom = <<>>
    /\ dirty = {}
    /\ last = NoCall
    /\ proc = Start
    /\ hist = NoHistory(order, now)

Next ==
    \/ Preflight
    \/ QuoteStart
    \/ QuoteFlowConstant
    \/ QuoteFlowVariable
    \/ QuoteEvalDone
    \/ QuoteFlowSimulate
    \/ \E sim \in SimResults : QuoteSimDone(sim)
    \/ QuoteFinish
    \/ FillNextStep
    \/ FillWitness
    \/ \E w \in WitnessResults : FillWitnessResolve(w)
    \/ FillSchedule
    \/ FillScheduleKnown
    \/ FillSleep
    \/ FillBuild
    \/ \E sim \in SimResults : FillPreSimulate(sim)
    \/ \E ok \in BOOLEAN : FillSend(ok)
    \/ \E receipt \in Receipts : FillReceipt(receipt)
    \/ \E block \in Blocks : FillOutputs(block)
    \/ \E sim \in SimResults : FillReSimulate(sim)
    \/ FillPolicy
    \/ \E p \in 1..Len(prom), r \in CallResults : CallReturn(p, r)

Spec == Init /\ [][Next]_vars

\* fill(ctx, order, env) called on a new VariableEnv, without preflight and
\* quote before it: also with a context that has no resolver for the kind
\* of a Witness variable.
FillDirectInputs ==
    FillInputs
    \cup {[order |-> WitnessOrder, ctx |-> Ctx(<<"f", "1">>, {}, {}), now |-> 0],
          [order |-> Order(<<Call_(1, <<Variable(1), Variable(2), Variable(1)>>, Plain, <<>>)>>,
                           <<Witness("k", <<>>), Witness("z", <<>>)>>, <<>>, <<>>),
           ctx |-> Ctx0, now |-> 0]}

InitFill ==
    /\ \E inp \in FillDirectInputs : order = inp.order /\ ctx = inp.ctx /\ now = inp.now
    /\ InitEnvState(order.variables)
    /\ proc = [Start EXCEPT !.pc = "f_step", !.stepIdx = 1]
    /\ hist = NoHistory(order, now)

NextFill ==
    \/ FillNextStep
    \/ FillWitness
    \/ \E w \in WitnessResults : FillWitnessResolve(w)
    \/ FillSchedule
    \/ FillScheduleKnown
    \/ FillSleep
    \/ FillBuild
    \/ \E sim \in SimResults : FillPreSimulate(sim)
    \/ \E ok \in BOOLEAN : FillSend(ok)
    \/ \E receipt \in Receipts : FillReceipt(receipt)
    \/ \E block \in Blocks : FillOutputs(block)
    \/ \E sim \in SimResults : FillReSimulate(sim)
    \/ FillPolicy
    \/ \E p \in 1..Len(prom), r \in CallResults : CallReturn(p, r)

SpecFill == InitFill /\ [][NextFill]_vars

TypeOK ==
    /\ proc.pc \in {"preflight", "quote", "q_flow", "q_eval", "q_sim", "f_step",
                    "f_witness", "f_witness_resolve", "f_schedule", "f_schedule_ts",
                    "f_sleep", "f_build", "f_presim", "f_send", "f_receipt",
                    "f_outputs", "f_resim", "f_policy", "done"}
    /\ Len(prom) = tick
    /\ (proc.pc = "done") = (proc.result # "running")

----------------------------------------------------------------------------
(* Claims about the VariableEnv *)

Count(s, x) == Cardinality({k \in DOMAIN s : s[k] = x})

\* C1: after set(i, v) on a settable variable, the next get(j) of every Query
\* variable j that depends on i through Query arguments, directly or
\* transitively, starts a new compute of j and returns the new promise, not
\* the one cached before the set.
C1_SetInvalidatesDependents ==
    (last.op = "get" /\ last.wasDirty) =>
        /\ Count(last.started, last.var) = 1
        /\ last.ret # last.before
        /\ last.ret = cache[last.var].value

\* C1 witness: a get of a Query that held a cached value, after a set of a
\* variable it depends on only through another Query; both were recomputed.
C1_Witness ==
    /\ last.op = "get" /\ last.wasDirty
    /\ last.before # NoValue
    /\ Len(last.started) >= 2
    /\ \E i \in VarIdxs : /\ CanSet(Roles[i])
                          /\ DependsOn(Roles, last.var, i)
                          /\ i \notin Range(deps(Roles, last.var))
                          /\ cache[i].tick > 0

IsCall == last'.n # last.n

\* C2: two get(i) calls with no set or other env call between them return
\* the same promise and together start one compute of i if i was not fresh
\* before the first call and none if it was; every get leaves its slot fresh.
C2_GetDeterministic ==
    [][(IsCall /\ last'.op = "get") =>
          /\ Count(last'.started, last'.var)
                = (IF isFresh(Roles, cache, last'.var) THEN 0 ELSE 1)
          /\ isFresh(Roles, cache', last'.var)
          /\ last'.again => /\ last'.ret = last.ret
                            /\ last'.started = <<>>
                            /\ cache' = cache /\ tick' = tick]_vars

\* C2 witness: a get of a Query directly after the get that computed it.
C2_Witness ==
    /\ last.op = "get" /\ last.again
    /\ Roles[last.var].type = "Query"
    /\ last.started = <<>>
    /\ cache[last.var].tick = tick - 1


----------------------------------------------------------------------------
(* Claims about fill *)

StepIdxs == 1..Len(Steps)

\* Something of step k has started: a witness resolution, a sleep, a
\* simulation or a transaction, or the loop of fill has reached it.
Touched(k) == hist.outcome[k] # "PENDING" \/ hist.acts[k] # {} \/ hist.sent[k] > 0

Terminal(k) == hist.outcome[k] \in {"COMPLETED", "IGNORED"}

\* C3: fill executes the steps strictly in declared order: whenever anything
\* of step j has started (witness resolution, sleep, simulation, transaction)
\* every earlier step k < j has already ended completed or ignored, and at
\* most the step fill is at is under way.
C3_StepsSequential ==
    \A j \in StepIdxs :
        /\ Touched(j) => \A k \in 1..(j - 1) : Terminal(k)
        /\ hist.outcome[j] = "ACTIVE" => j = proc.stepIdx

C3_Witness ==
    /\ Len(Steps) = 3
    /\ hist.outcome[1] = "COMPLETED"
    /\ hist.outcome[2] = "IGNORED"
    /\ hist.outcome[3] = "ACTIVE"
    /\ {"sleep", "simulate", "send"} \subseteq hist.acts[3]

\* The current step reverted and its revert policy has been applied.
Reverted == proc.revertData # <<>> /\ proc.pc \in {"done", "f_step"}
RevertedStep == IF proc.pc = "f_step" THEN proc.stepIdx - 1 ELSE proc.stepIdx

\* The entries of the reverted step whose expectedReason prefixes the revert
\* data, compared without regard to case.
Matching ==
    LET entries == Steps[RevertedStep].attributes.RevertPolicy
    IN  {m \in DOMAIN entries :
            startsWith(toLowerCase(proc.revertData[1]),
                       toLowerCase(entries[m].expectedReason))}

FirstMatchingPolicy ==
    LET entries == Steps[RevertedStep].attributes.RevertPolicy
    IN  entries[CHOOSE m \in Matching : \A n \in Matching : m <= n].policy

NoLaterStepTouched == \A j \in (RevertedStep + 1)..Len(Steps) : ~Touched(j)

\* C4: when a step has reverted (in pre-simulation or on-chain) and the first
\* matching RevertPolicy entry has policy drop, fill returns false and
\* nothing of a later step has started; fill returns true only if every step
\* ended completed or ignored and no error occurred.
C4_Drop ==
    /\ (Reverted /\ Matching # {} /\ FirstMatchingPolicy = "drop") =>
          /\ proc.pc = "done"
          /\ proc.filled = "false"
          /\ proc.result = "resolved"
          /\ hist.outcome[RevertedStep] = "DROPPED"
          /\ NoLaterStepTouched
    /\ proc.filled = "true" =>
          /\ \A k \in StepIdxs : Terminal(k)
          /\ proc.result = "resolved"
    /\ (\E k \in StepIdxs : hist.outcome[k] = "DROPPED") => proc.filled = "false"

C4_Witness ==
    /\ Reverted /\ Matching # {} /\ FirstMatchingPolicy = "drop"
    /\ hist.sent[RevertedStep] = 1
    /\ RevertedStep < Len(Steps)
    /\ proc.filled = "false"

\* C5: when a step has reverted and no RevertPolicy entry of the step has an
\* expectedReason that prefixes the revert data (an empty list included),
\* fill ends with the 'resolver error' error, returning neither true nor
\* false, and nothing of a later step has started.
C5_UnmatchedRevertFatal ==
    (Reverted /\ Matching = {}) =>
        /\ proc.pc = "done"
        /\ proc.result = "resolver error"
        /\ proc.filled = "error"
        /\ NoLaterStepTouched

C5_Witness ==
    /\ Reverted /\ Matching = {}
    /\ Steps[RevertedStep].attributes.RevertPolicy # <<>>
    /\ RevertedStep < Len(Steps)
    /\ proc.result = "resolver error"

\* C6: when a step has reverted and the first matching RevertPolicy entry has
\* policy ignore, fill goes on to the next step, and the env is as it was
\* when the step's pre-simulation was issued: no env.set was performed for
\* the step's With* variables.
C6_Ignore ==
    (Reverted /\ Matching # {} /\ FirstMatchingPolicy = "ignore") =>
        /\ proc.pc = "f_step"
        /\ proc.result = "running"
        /\ hist.outcome[RevertedStep] = "IGNORED"
        /\ cache = hist.snap.cache
        /\ tick = hist.snap.tick

C6_Witness ==
    /\ Reverted /\ Matching # {} /\ FirstMatchingPolicy = "ignore"
    /\ Cardinality(Matching) > 1
    /\ hist.sent[RevertedStep] = 1
    /\ Steps[RevertedStep].attributes.WithBlockNumber # <<>>
    /\ Steps[RevertedStep].attributes.WithTimestamp # <<>>
    /\ Steps[RevertedStep].attributes.WithEffectiveGasPrice # <<>>
    /\ RevertedStep < Len(Steps)

\* The step before the one fill is at has just completed: its receipt had
\* status success and applyTxOutputs has returned.
JustCompleted == proc.pc = "f_step" /\ proc.receipt # <<>> /\ proc.block # <<>>
CompletedStep == proc.stepIdx - 1

\* What the With* attributes of the completed step ask for, in the order
\* block number, timestamp, effective gas price.
Expected ==
    LET attrs == Steps[CompletedStep].attributes
    IN  (IF attrs.WithBlockNumber # <<>>
         THEN <<[v |-> attrs.WithBlockNumber[1].blockNumberVarIdx,
                 n |-> proc.receipt[1].blockNumber]>>
         ELSE <<>>)
        \o (IF attrs.WithTimestamp # <<>>
            THEN <<[v |-> attrs.WithTimestamp[1].timestampVarIdx,
                    n |-> proc.block[1].timestamp]>>
            ELSE <<>>)
        \o (IF attrs.WithEffectiveGasPrice # <<>>
            THEN <<[v |-> attrs.WithEffectiveGasPrice[1].gasPriceVarIdx,
                    n |-> proc.receipt[1].effectiveGasPrice]>>
            ELSE <<>>)

\* The env holds the uint256 n for variable v: get(v) returns a promise
\* resolved with it, without computing anything.
Holds(v, n) ==
    /\ cache[v].value # NoValue
    /\ prom[cache[v].value].state = "ok"
    /\ prom[cache[v].value].value = [type |-> "Static", encoding |-> n]
    /\ isFresh(Roles, cache, v)

Stale(v) == \A j \in Dependents(Roles, v) : ~isFresh(Roles, cache, j)

ExtractedAll == \A m \in DOMAIN Expected : Holds(Expected[m].v, Expected[m].n) /\ Stale(Expected[m].v)

\* The With* variables of the step fill is at can be set.
OutputsSettable ==
    LET attrs == CurStep.attributes
    IN  /\ \A m \in DOMAIN attrs.WithBlockNumber :
              CanSet(Roles[attrs.WithBlockNumber[m].blockNumberVarIdx])
        /\ \A m \in DOMAIN attrs.WithTimestamp :
              CanSet(Roles[attrs.WithTimestamp[m].timestampVarIdx])
        /\ \A m \in DOMAIN attrs.WithEffectiveGasPrice :
              CanSet(Roles[attrs.WithEffectiveGasPrice[m].gasPriceVarIdx])

\* C7 as stated: once a step's receipt has status success (and getBlock
\* answers), the step completes and before the next step starts every With*
\* attribute's variable holds the uint256 of its receipt value, with the
\* Query variables depending on it no longer fresh.
C7_Original ==
    [][(proc.pc = "f_outputs" /\ OutputsSettable /\ proc'.result # "transport error") =>
          (JustCompleted' /\ ExtractedAll')]_vars

----------------------------------------------------------------------------
(* Claims about process and preflight *)

\* What preflight answers for the order at the time process was called.
PreflightError == preflight(ctx, order, hist.now0)

QuoteSucceeded ==
    /\ collectFlowFormulas(order).err = ""
    /\ Len(collectPricingVars(order)) = 0
    /\ Len(proc.amounts) = Len(Flows)
    /\ computePnLUsd(ctx, Flows, proc.amounts) >= 0

\* C8: process runs preflight, then quote, then fill, each only if the stage
\* before succeeded: when a preflight check fails no chain request is made
\* and no env is created; when process fails before fill starts (preflight
\* or quote rejected the plan) no transaction was sent and nothing of a step
\* has started; in both cases the error is the outcome of process.
C8_StageOrder ==
    /\ (proc.pc # "preflight" /\ PreflightError # "") =>
          /\ proc.pc = "done"
          /\ proc.result = PreflightError
          /\ hist.io = {}
          /\ cache = <<>>
    /\ (proc.pc = "done" /\ proc.filled = "none") =>
          /\ proc.result \notin {"running", "resolved"}
          /\ "sendTransaction" \notin hist.io
          /\ \A k \in StepIdxs : ~Touched(k)
    /\ proc.pc \notin {"preflight", "quote", "q_flow", "q_eval", "q_sim", "done"} =>
          PreflightError = "" /\ QuoteSucceeded
    /\ (\E k \in StepIdxs : Touched(k)) => PreflightError = "" /\ QuoteSucceeded
    /\ proc.pc \in {"quote", "q_flow", "q_eval", "q_sim"} => PreflightError = ""

C8_Witness ==
    /\ proc.pc = "done"
    /\ proc.result = "Gas simulation failed"
    /\ {"eth_call", "simulateCalls"} \subseteq hist.io
    /\ "sendTransaction" \notin hist.io

Min(S) == CHOOSE x \in S : \A y \in S : x <= y
Max(S) == CHOOSE x \in S : \A y \in S : x >= y

DropSteps ==
    {k \in StepIdxs : \E m \in DOMAIN Steps[k].attributes.RevertPolicy :
                          Steps[k].attributes.RevertPolicy[m].policy = "drop"}
SpendSteps == {k \in StepIdxs : Steps[k].attributes.SpendsERC20 # <<>>}

\* C9: a plan in which some step with a drop entry comes after the first
\* step with a SpendsERC20 attribute is rejected with 'Invalid RevertPolicy
\* order' before quote starts; a plan whose last drop step is at or before
\* its first SpendsERC20 step (the same step may carry both) is not
\* rejected with that error.
C9_RevertPolicyOrder ==
    proc.pc # "preflight" =>
        /\ (SpendSteps # {} /\ \E d \in DropSteps : d > Min(SpendSteps)) =>
              /\ proc.result = "Invalid RevertPolicy order"
              /\ cache = <<>>
              /\ hist.io = {}
        /\ (SpendSteps # {} /\ DropSteps # {} /\ Max(DropSteps) <= Min(SpendSteps)) =>
              proc.result # "Invalid RevertPolicy order"

C9_Witness ==
    /\ proc.pc = "done"
    /\ proc.result = "Invalid RevertPolicy order"
    /\ Len(Steps) = 3
    /\ DropSteps = {1, 3}
    /\ SpendSteps = {2}

Deadlines ==
    {Steps[k].attributes.RequiredBefore[1].deadline :
        k \in {j \in StepIdxs : Steps[j].attributes.RequiredBefore # <<>>}}

TooClose == Deadlines # {} /\ hist.now0 + 600 >= Min(Deadlines)

\* C10 as stated: process rejects with 'Deadline too close or already
\* expired' iff now + 600 >= the minimum RequiredBefore deadline.
C10_Original ==
    proc.pc # "preflight" =>
        ((proc.result = "Deadline too close or already expired") <=> TooClose)

\* C10: with earliest the minimum RequiredBefore deadline over all steps, a
\* plan that passes the revert-policy check is rejected with 'Deadline too
\* close or already expired' iff now + 600 >= earliest (equality is
\* rejected); a plan that fails the revert-policy check is rejected with
\* 'Invalid RevertPolicy order' whatever its deadlines; a plan in which no
\* step has RequiredBefore is never rejected with the deadline error.
C10_DeadlineSlack ==
    proc.pc # "preflight" =>
        /\ (proc.result = "Deadline too close or already expired")
              <=> (TooClose /\ proc.result # "Invalid RevertPolicy order")
        /\ Deadlines = {} => proc.result # "Deadline too close or already expired"

C10_Witness ==
    /\ proc.pc = "done"
    /\ proc.result = "Deadline too close or already expired"
    /\ Len(Steps) >= 2
    /\ Steps[1].attributes.RequiredBefore # <<>>
    /\ Steps[2].attributes.RequiredBefore # <<>>
    /\ Steps[1].attributes.RequiredBefore[1].deadline > Steps[2].attributes.RequiredBefore[1].deadline
    /\ hist.now0 + 600 = Min(Deadlines)


PreflightErrors ==
    {"Invalid RevertPolicy order", "Deadline too close or already expired",
     "Untrusted account", "Unsupported witness kind"}

\* process has thrown out of preflight: nothing of quote or fill has run.
RejectedBeforeQuote ==
    /\ proc.pc = "done"
    /\ proc.result \in PreflightErrors
    /\ proc.filled = "none"
    /\ cache = <<>>
    /\ hist.io = {}
    /\ \A k \in StepIdxs : ~Touched(k)

Untrusted ==
    {k \in DOMAIN order.assumptions :
        <<order.assumptions[k].trusted, order.assumptions[k].kind>> \notin ctx.isWhitelisted}

\* C11: a plan with an assumption {trusted, kind} that ctx.isWhitelisted does
\* not accept is rejected by process before quote and fill run (with
\* 'Untrusted account ...' unless the revert-policy or deadline check rejects
\* it first), and no transaction is ever sent for it.
C11_TrustGate ==
    (Untrusted # {} /\ proc.pc # "preflight") =>
        /\ RejectedBeforeQuote
        /\ proc.result # "Unsupported witness kind"
        /\ "sendTransaction" \notin hist.io

C11_Witness ==
    /\ proc.pc = "done"
    /\ proc.result = "Untrusted account"
    /\ Len(order.assumptions) = 2
    /\ Untrusted = {2}
    /\ Len(Steps) > 0

Unsupported ==
    {i \in DOMAIN order.variables :
        /\ order.variables[i].type = "Witness"
        /\ order.variables[i].kind \notin ctx.witnessResolvers}

Referenced(i) ==
    \E k \in StepIdxs : \E m \in DOMAIN Steps[k].arguments :
        Steps[k].arguments[m] = Variable(i)

\* C12: a plan with a Witness variable whose kind has no resolver in ctx is
\* rejected by process before quote and fill run, whether or not a step
\* references the variable (with 'Unsupported witness kind ...' when no
\* earlier preflight check rejects it).
C12_WitnessSupportGate ==
    (Unsupported # {} /\ proc.pc # "preflight") =>
        /\ RejectedBeforeQuote
        /\ Untrusted = {} => proc.result # "Untrusted account"

C12_Witness ==
    /\ proc.pc = "done"
    /\ proc.result = "Unsupported witness kind"
    /\ \A i \in Unsupported : ~Referenced(i)
    /\ \E i \in DOMAIN order.variables : i \notin Unsupported /\ Referenced(i)


\* C13: when fill returns false (a revert policy said drop) process completes
\* normally, without an error; when a step ends fatally (unmatched revert,
\* transport error, any error thrown inside fill) process fails with that
\* error.
C13_DropIsNotFailure ==
    /\ proc.filled = "false" =>
          /\ proc.pc = "done"
          /\ proc.result = "resolved"
          /\ \E k \in StepIdxs : hist.outcome[k] = "DROPPED"
    /\ (Reverted /\ Matching # {} /\ FirstMatchingPolicy = "drop") => proc.result = "resolved"
    /\ (Reverted /\ Matching = {}) => proc.result = "resolver error"
    /\ (\E k \in StepIdxs : hist.outcome[k] = "FATAL") =>
          /\ proc.pc = "done"
          /\ proc.filled = "error"
          /\ proc.result \notin {"running", "resolved"}

C13_Witness ==
    /\ proc.pc = "done"
    /\ proc.filled = "false"
    /\ proc.result = "resolved"
    /\ Reverted
    /\ hist.sent[RevertedStep] = 0
    /\ "simulate" \in hist.acts[RevertedStep]


----------------------------------------------------------------------------
(* Claims about quote *)

RECURSIVE SumTo(_, _)
SumTo(F(_), n) == IF n = 0 THEN 0 ELSE F(n) + SumTo(F, n - 1)

\* The flows of a step: one for gas, one per SpendsERC20 attribute, one per
\* payment of the step; Offset(k) flows precede those of step k.
FlowCount(k) == 1 + Len(Steps[k].attributes.SpendsERC20) + Len(Steps[k].payments)
Offset(k) == LET F(j) == FlowCount(j) IN SumTo(F, k - 1)
ExpectedFlowCount == Offset(Len(Steps) + 1) + Len(order.payments)

TokenPrice(tok) == ctx.getTokenPriceUsd[<<tok.address, tok.chainId>>]

StepPnl(k) ==
    LET b == Offset(k)
        spends == Steps[k].attributes.SpendsERC20
        pays == Steps[k].payments
        Out(m) == proc.amounts[b + 1 + m] * TokenPrice(spends[m].token)
        In(m) == proc.amounts[b + 1 + Len(spends) + m] * TokenPrice(pays[m].token)
    IN  0 - proc.amounts[b + 1] * ctx.getGasPriceUsd[Steps[k].target.chainId]
          - SumTo(Out, Len(spends)) + SumTo(In, Len(pays))

ExpectedPnl ==
    LET b == Offset(Len(Steps) + 1)
        In(m) == proc.amounts[b + m] * TokenPrice(order.payments[m].token)
    IN  SumTo(StepPnl, Len(Steps)) + SumTo(In, Len(order.payments))

FillStarted ==
    proc.filled # "none" \/ proc.pc \notin {"preflight", "quote", "q_flow", "q_eval", "q_sim", "done"}

\* C14: quote's pnl is the sum over the flows of amount * sign * price, with
\* per step one gas flow (sign -1, gas price of the step's chain), one flow
\* per SpendsERC20 attribute (sign -1, token price) and one per payment
\* (sign +1, token price), then one per plan-level payment (sign +1); quote
\* rejects with 'Negative PnL' iff pnl < 0: fill starts iff pnl >= 0.
C14_PnLGate ==
    /\ proc.result = "Negative PnL" =>
          /\ Len(proc.amounts) = ExpectedFlowCount
          /\ ExpectedPnl < 0
          /\ ~FillStarted
    /\ FillStarted =>
          /\ Len(proc.amounts) = ExpectedFlowCount
          /\ ExpectedPnl >= 0

C14_Witness ==
    /\ proc.pc = "f_step"
    /\ ExpectedPnl = 0
    /\ Len(Steps) = 1
    /\ Steps[1].attributes.SpendsERC20 # <<>>
    /\ proc.amounts[2] > 0
    /\ Len(order.payments) + Len(Steps[1].payments) > 0


\* quote was called: preflight returned without an error.
QuoteRan == proc.pc \notin {"preflight", "quote"} /\ proc.result \notin PreflightErrors

HasPricing == \E i \in DOMAIN order.variables : order.variables[i].type = "Pricing"

HasDelayed ==
    \/ \E k \in StepIdxs : \E m \in DOMAIN Steps[k].payments :
          Steps[k].payments[m].estimatedDelaySeconds # 0
    \/ \E m \in DOMAIN order.payments : order.payments[m].estimatedDelaySeconds # 0

NothingEvaluated ==
    /\ proc.pc = "done"
    /\ proc.filled = "none"
    /\ cache = <<>>
    /\ tick = 0
    /\ hist.io = {}

\* C15 as stated: quote rejects every plan that has a Pricing variable with
\* 'Pricing variables not supported', without env and without chain I/O.
C15_Original ==
    (QuoteRan /\ HasPricing) =>
        NothingEvaluated /\ proc.result = "Pricing variables not supported"

\* C15: quote rejects every plan whose variable list contains a Pricing role,
\* without creating an env and without any chain I/O; the error is 'Pricing
\* variables not supported' unless the plan also has a delayed payment,
\* which is detected first and gives 'Delayed payment not supported'.
C15_PricingRejected ==
    (QuoteRan /\ HasPricing) =>
        /\ NothingEvaluated
        /\ proc.result = IF HasDelayed THEN "Delayed payment not supported"
                         ELSE "Pricing variables not supported"

C15_Witness ==
    /\ QuoteRan /\ HasPricing /\ ~HasDelayed
    /\ proc.result = "Pricing variables not supported"
    /\ Len(Steps) > 0

\* C16: quote fails with 'Delayed payment not supported' for every plan in
\* which a step-level or plan-level payment has estimatedDelaySeconds # 0,
\* before any variable is evaluated and before any simulation is issued.
C16_DelayedRejected ==
    (QuoteRan /\ HasDelayed) =>
        NothingEvaluated /\ proc.result = "Delayed payment not supported"

C16_Witness ==
    /\ QuoteRan /\ HasDelayed
    /\ proc.result = "Delayed payment not supported"
    /\ Len(order.payments) = 2
    /\ order.payments[1].estimatedDelaySeconds = 0
    /\ order.payments[1].amountFormula.type = "Variable"
    /\ order.payments[2].estimatedDelaySeconds # 0
    /\ Steps[1].attributes.SpendsEstimatedGas = <<>>


NoGasEstimate == {k \in StepIdxs : Steps[k].attributes.SpendsEstimatedGas = <<>>}

\* The steps without SpendsEstimatedGas whose gas flow quote has already
\* evaluated (flows are evaluated in order, Offset(k) + 1 is step k's gas flow).
GasEvaluated == {k \in NoGasEstimate : Offset(k) + 1 <= Len(proc.amounts)}

\* C17: the number of simulateCalls quote has issued for gas is the number of
\* steps without SpendsEstimatedGas whose gas flow it has reached, so when
\* quote gets to the PnL gate it is the number of such steps (zero when every
\* step has the attribute, whatever the formulas evaluate to); a gas
\* simulation whose status is not success ends quote with 'Gas simulation
\* failed', and that error has no other cause.
C17_GasQuoting ==
    /\ (FillStarted \/ proc.result = "Negative PnL") =>
          hist.gasSims = Cardinality(NoGasEstimate)
    /\ (cache # <<>> /\ proc.pc # "done") =>
          hist.gasSims = Cardinality(GasEvaluated)
    /\ proc.simStatus \notin {"", "success"} =>
          /\ proc.pc = "done"
          /\ proc.result = "Gas simulation failed"
          /\ ~FillStarted
    /\ proc.result = "Gas simulation failed" => proc.simStatus = "failure"

C17_Witness ==
    /\ FillStarted
    /\ Len(Steps) = 3
    /\ NoGasEstimate = {1, 3}
    /\ Steps[2].attributes.SpendsEstimatedGas[1].amountFormula.type = "Variable"
    /\ proc.amounts[Offset(2) + 1] = 0
    /\ hist.gasSims = 2


----------------------------------------------------------------------------
(* More claims about the VariableEnv *)

Settable(i) == Roles[i].type \in {"Pricing", "TxOutput", "Witness"}

\* C18: set(varIdx, value) succeeds only for the roles Pricing, TxOutput and
\* Witness: it then stores a promise resolved with value at the current tick
\* and advances the tick, leaving every other slot alone; for any other role
\* it raises '... cannot be set' and leaves every slot and the tick
\* unchanged.
C18_SetOnlySettable ==
    [][(IsCall /\ last'.op = "set") =>
          LET i == last'.var
          IN  IF Settable(i)
              THEN /\ last'.err = ""
                   /\ tick' = tick + 1
                   /\ cache'[i].tick = tick
                   /\ prom'[cache'[i].value].state = "ok"
                   /\ prom'[cache'[i].value].value = last'.arg
                   /\ \A j \in VarIdxs \ {i} : cache'[j] = cache[j]
              ELSE /\ last'.err = "cannot be set"
                   /\ cache' = cache
                   /\ tick' = tick]_vars

C18_Witness ==
    /\ last.op = "set"
    /\ last.err = "cannot be set"
    /\ Roles[last.var].type = "Query"
    /\ cache[last.var].value # NoValue
    /\ \E j \in VarIdxs : Settable(j) /\ cache[j].value # NoValue

\* The slot of the settable variable i holds a value stored by set.
WasSet(i) ==
    /\ cache[i].value # NoValue
    /\ prom[cache[i].value].state = "ok"

\* C19: get(varIdx) of a Pricing, TxOutput or Witness variable that was never
\* set returns a promise rejected with '... not set'; once set(varIdx, v) was
\* called, the slot holds v and changes only by another set(varIdx, ...),
\* and get(varIdx) returns what the slot holds without any compute,
\* whatever was set or computed in between.
C19_SetThenGet ==
    [][/\ (IsCall /\ last'.op = "get" /\ Settable(last'.var)) =>
             LET i == last'.var
             IN  IF WasSet(i)
                 THEN /\ last'.ret = cache[i].value
                      /\ last'.started = <<>>
                      /\ cache' = cache /\ tick' = tick
                      /\ prom'[last'.ret] = prom[cache[i].value]
                 ELSE /\ prom'[last'.ret].state = "err"
                      /\ prom'[last'.ret].err = "not set"
       /\ (IsCall /\ last'.op = "set" /\ Settable(last'.var)) =>
             /\ prom'[cache'[last'.var].value].state = "ok"
             /\ prom'[cache'[last'.var].value].value = last'.arg
       /\ \A i \in VarIdxs :
             (Settable(i) /\ WasSet(i)
                /\ (cache'[i] # cache[i] \/ prom'[cache[i].value] # prom[cache[i].value])) =>
                   (IsCall /\ last'.op = "set" /\ last'.var = i)]_vars

C19_Witness ==
    /\ last.op = "get"
    /\ Settable(last.var)
    /\ WasSet(last.var)
    /\ prom[last.ret].value = Static(1)
    /\ cache[last.var].tick + 3 <= tick
    /\ \E j \in VarIdxs : Roles[j].type = "Query" /\ cache[j].tick > cache[last.var].tick


----------------------------------------------------------------------------
(* Claims about the call builder *)

CallValues ==
    [k \in DOMAIN order.steps[1].arguments |-> order.steps[1].arguments[k].value]

IsDynamic(k) == CallValues[k].type = "Dynamic"
HeadLen(k) == IF IsDynamic(k) THEN 32 ELSE Len(CallValues[k].encoding)
TailLen(k) == IF IsDynamic(k) THEN Len(CallValues[k].encoding) ELSE 0

\* The len bytes of s after the first off bytes.
Slice(s, off, len) == SubSeq(s, off + 1, off + len)

\* The number a byte string holds, big-endian.
RECURSIVE BigEndian(_)
BigEndian(bs) ==
    IF bs = <<>> THEN 0
    ELSE 256 * BigEndian(SubSeq(bs, 1, Len(bs) - 1)) + bs[Len(bs)]

\* C20: for a 4-byte selector the call data is selector || heads || tails:
\* with headsSize the sum of 32 per Dynamic value and len(encoding) per
\* Static value, the data is 4 + headsSize + (length of all Dynamic
\* encodings) bytes long, starts with the selector, holds each Static
\* encoding inline at its place in the heads and for each Dynamic value the
\* 32-byte big-endian offset headsSize + (length of the Dynamic encodings
\* before it), at which offset (counted after the selector) its encoding
\* lies; a selector that is not 4 bytes gives an error and no data.
C20_CallLayout ==
    (proc.fn = "buildCallData" /\ proc.pc = "done") =>
        LET selector == order.steps[1].selector
            n == Len(CallValues)
            hs == SumTo(HeadLen, n)
        IN  IF Len(selector) # 4
            THEN proc.result = "Selector must be 4 bytes" /\ proc.data = <<>>
            ELSE /\ proc.result = "ok"
                 /\ Len(proc.data) = 4 + hs + SumTo(TailLen, n)
                 /\ Slice(proc.data, 0, 4) = selector
                 /\ \A k \in 1..n :
                       LET headAt == 4 + SumTo(HeadLen, k - 1)
                           offset == hs + SumTo(TailLen, k - 1)
                           enc == CallValues[k].encoding
                       IN  IF IsDynamic(k)
                           THEN /\ BigEndian(Slice(proc.data, headAt, 32)) = offset
                                /\ Slice(proc.data, 4 + offset, Len(enc)) = enc
                           ELSE Slice(proc.data, headAt, Len(enc)) = enc

C20_Witness ==
    /\ proc.fn = "buildCallData" /\ proc.pc = "done" /\ proc.result = "ok"
    /\ Len(CallValues) = 3
    /\ ~IsDynamic(1) /\ Len(CallValues[1].encoding) = 128
    /\ IsDynamic(2) /\ IsDynamic(3)
    /\ Len(CallValues[2].encoding) = 96
    /\ BigEndian(Slice(proc.data, 4 + 128 + 32, 32)) = 288
    /\ Len(proc.data) > 4 + 288


----------------------------------------------------------------------------
(* Claims about the AbiEncodedValue codec *)

\* The wire form of a value: the dynamic prefix and the encoding, or the
\* length of the encoding, the encoding and a zero word.
Wire(v) ==
    IF v.type = "Dynamic" THEN DYN_PREFIX \o v.encoding
    ELSE numberToHex(Len(v.encoding), 32) \o v.encoding \o ZERO

CodecValues ==
    {Static(e) : e \in StaticEncodings} \cup {Dynamic(e) : e \in DynamicEncodings}

Decoded == proc.fn = "decodeAbiWrappedValue" /\ proc.pc = "done"
Encoded == proc.fn = "abiEncode" /\ proc.pc = "done"

\* C21 as stated: decoding the wire form of a value gives the value, for a
\* blob of either shape and for the blob abiEncode builds for a value of a
\* static or a dynamic type; a static blob whose size is not its header plus
\* 64, or whose last word is not zero, is rejected.
C21_Original ==
    /\ Decoded =>
          /\ \A v \in CodecValues :
                proc.input = Wire(v) => (proc.result = "ok" /\ proc.value = <<v>>)
          /\ (~startsWith(proc.input, DYN_PREFIX)
                /\ (Len(proc.input) < 64
                      \/ Len(proc.input) # hexToNumber(SubSeq(proc.input, 1, 32)) + 64
                      \/ SubSeq(proc.input, Len(proc.input) - 31, Len(proc.input)) # ZERO)) =>
                proc.result # "ok"
    /\ Encoded =>
          /\ proc.result = "ok"
          /\ proc.value = <<[type |-> IF proc.input.dynamic THEN "Dynamic" ELSE "Static",
                             encoding |-> proc.input.encoding]>>


----------------------------------------------------------------------------
(* Claims about resolve *)

ResolveReturned == proc.fn = "resolve" /\ proc.pc = "done"

\* Every varIdx of a decoded plan.
ArgumentIndices(arguments) ==
    {arguments[k].varIdx : k \in {j \in DOMAIN arguments : arguments[j].type = "Variable"}}
FormulaIndices(formula) == IF formula.type = "Variable" THEN {formula.varIdx} ELSE {}
PaymentIndices(payments) ==
    UNION {FormulaIndices(p.amountFormula) \cup {p.recipientVarIdx} : p \in Range(payments)}
StepIndices(step) ==
    ArgumentIndices(step.arguments)
        \cup UNION {FormulaIndices(a.amountFormula) : a \in Range(step.attributes.SpendsERC20)}
        \cup UNION {FormulaIndices(a.amountFormula) :
                        a \in Range(step.attributes.SpendsEstimatedGas)}
        \cup UNION {ArgumentIndices(a.arguments) : a \in Range(step.attributes.RequiredCallResult)}
        \cup {a.timestampVarIdx : a \in Range(step.attributes.WithTimestamp)}
        \cup {a.blockNumberVarIdx : a \in Range(step.attributes.WithBlockNumber)}
        \cup {a.gasPriceVarIdx : a \in Range(step.attributes.WithEffectiveGasPrice)}
        \cup PaymentIndices(step.payments)
RoleIndices(role) ==
    IF role.type = "Query" THEN ArgumentIndices(role.arguments)
    ELSE IF role.type = "Witness" THEN Range(role.variables)
    ELSE {}
PlanIndices(plan) ==
    UNION {StepIndices(step) : step \in Range(plan.steps)}
        \cup UNION {RoleIndices(role) : role \in Range(plan.variables)}
        \cup PaymentIndices(plan.payments)

\* C22 as stated: every varIdx of a plan that resolve returns is the index
\* of one of the plan's variables.
C22_Original ==
    (ResolveReturned /\ proc.result = "ok") =>
        \A varIdx \in PlanIndices(proc.value[1]) :
            varIdx \in 1..Len(proc.value[1].variables)

SingletonKinds ==
    {"SpendsEstimatedGas", "RequiredBefore", "RequiredFillerUntil", "RequiredCallResult",
     "WithTimestamp", "WithBlockNumber", "WithEffectiveGasPrice"}

\* The entries of kind t in the attribute list the resolver gave for the step.
EntriesOf(t) ==
    {k \in DOMAIN proc.input.steps[1].args.attributes :
        proc.input.steps[1].args.attributes[k].functionName = t}

\* The entries before the second entry of some singleton kind decode.
MeetsDuplicate ==
    \E t \in SingletonKinds : \E k \in EntriesOf(t) :
        /\ \E j \in EntriesOf(t) : j < k
        /\ \A j \in 1..(k - 1) :
              decodeAttribute(proc.input.steps[1].args.attributes[j]).err = ""

----------------------------------------------------------------------------
(* Claims about concurrent gets and the tick order *)

\* The slot of i holds the promise of a compute that has not settled.
InFlight(i) == cache[i].value # NoValue /\ prom[cache[i].value].state = "pending"

\* The step is a call of env.get(i).
IsGet(i) == last'.n # last.n /\ last'.op = "get" /\ last'.var = i

NoRepeats(s) == \A k, j \in DOMAIN s : s[k] = s[j] => k = j

\* C24: a get of a variable whose compute is in flight, with no set of one
\* of its dependencies since that compute began, starts no compute and
\* returns the promise the slot holds, leaving the environment as it was;
\* within one get no variable is computed twice, and a pending compute
\* awaits one and the same promise for every occurrence of a variable in
\* its arguments.
C24_SharedInFlight ==
    [][\A i \in VarIdxs :
          IsGet(i) =>
             /\ (InFlight(i) /\ i \notin dirty) =>
                   /\ last'.started = <<>>
                   /\ last'.ret = cache[i].value
                   /\ cache' = cache /\ tick' = tick /\ prom' = prom
             /\ NoRepeats(last'.started)
             /\ \A p \in DOMAIN prom' :
                   prom'[p].state = "pending" =>
                      \A k, j \in DOMAIN prom'[p].awaits :
                         deps(Roles, prom'[p].var)[k] = deps(Roles, prom'[p].var)[j]
                            => prom'[p].awaits[k] = prom'[p].awaits[j]]_vars

\* A second get of the top of the diamond while its compute, started by the
\* get before it, awaits the two computes that share the bottom one.
C24_Witness ==
    /\ Len(Roles) = 4
    /\ last.op = "get" /\ last.var = 4 /\ last.again
    /\ last.started = <<>> /\ last.before = last.ret
    /\ InFlight(4) /\ InFlight(2) /\ InFlight(3) /\ InFlight(1)
    /\ prom[cache[2].value].awaits = prom[cache[3].value].awaits
    /\ 4 \notin dirty


\* The slots written by the step: the variable set, or the variables whose
\* compute the get started.
Written ==
    IF last'.n = last.n THEN {}
    ELSE IF last'.op = "set" /\ last'.err = "" THEN {last'.var}
    ELSE Range(last'.started)

\* C25: the counter never decreases; a step advances it by one for each
\* slot a set or a compute writes, and these slots receive the counter
\* values from the old one up to the new one, each its own; every slot
\* holding a value has a tick of at least 0 and below the counter, no two
\* such slots have the same tick, and a Query slot written by a compute has
\* a tick above the ticks of the slots of its dependencies.
C25_TickOrder ==
    [][/\ tick' >= tick
       /\ tick' = tick + Cardinality(Written)
       /\ \A i \in VarIdxs \ Written : cache'[i] = cache[i]
       /\ {cache'[i].tick : i \in Written} = tick..(tick' - 1)
       /\ (last'.n # last.n /\ last'.op = "set" /\ last'.err = "") =>
             (cache'[last'.var].tick = tick /\ tick' = tick + 1)
       /\ \A i \in VarIdxs :
             cache'[i].value # NoValue => (0 <= cache'[i].tick /\ cache'[i].tick < tick')
       /\ \A i, j \in VarIdxs :
             (cache'[i].value # NoValue /\ cache'[j].value # NoValue
                /\ cache'[i].tick = cache'[j].tick) => i = j
       /\ \A i \in Written :
             Roles[i].type = "Query" =>
                \A k \in DOMAIN deps(Roles, i) :
                   /\ cache'[deps(Roles, i)[k]].value # NoValue
                   /\ cache'[deps(Roles, i)[k]].tick < cache'[i].tick]_vars

\* After sets, a get has started the computes of a Query and of the Query
\* it depends on, whose own dependency kept the older tick of its set.
C25_Witness ==
    /\ last.op = "get" /\ Len(last.started) = 2
    /\ Roles[1].type = "TxOutput" /\ cache[1].value # NoValue
    /\ last.started = <<3, 2>>
    /\ cache[1].tick = 1 /\ cache[2].tick = 2 /\ cache[3].tick = 3 /\ tick = 4


----------------------------------------------------------------------------
(* More claims about fill *)

\* x and y are the same hex digit, in either case.
SameDigit(x, y) ==
    \/ x = y
    \/ <<x, y>> \in {<<"a", "A">>, <<"b", "B">>, <<"c", "C">>, <<"d", "D">>, <<"e", "E">>,
                    <<"f", "F">>, <<"A", "a">>, <<"B", "b">>, <<"C", "c">>, <<"D", "d">>,
                    <<"E", "e">>, <<"F", "f">>}

\* The entries of the current step's RevertPolicy whose expectedReason is a
\* prefix of the revert data, whatever the case of the digits.
MatchingEntries ==
    {k \in DOMAIN CurStep.attributes.RevertPolicy :
        LET reason == CurStep.attributes.RevertPolicy[k].expectedReason
        IN  /\ Len(reason) <= Len(proc.revertData[1])
            /\ \A m \in DOMAIN reason : SameDigit(reason[m], proc.revertData[1][m])}

\* C26: when a step has reverted, its outcome is the policy of the first
\* entry of its RevertPolicy whose expectedReason is a case-insensitive
\* prefix of the revert data (drop: fill returns false; ignore: the next
\* step), whatever later entries match; an entry with an empty
\* expectedReason matches every revert; with no matching entry the step
\* is fatal.
C26_FirstMatchingPolicy ==
    [][proc.pc = "f_policy" =>
          /\ \A k \in DOMAIN CurStep.attributes.RevertPolicy :
                CurStep.attributes.RevertPolicy[k].expectedReason = <<>>
                   => k \in MatchingEntries
          /\ IF MatchingEntries = {}
             THEN hist'.outcome[proc.stepIdx] = "FATAL"
             ELSE LET first == CHOOSE k \in MatchingEntries : \A m \in MatchingEntries : k <= m
                      policy == CurStep.attributes.RevertPolicy[first].policy
                  IN  /\ policy = "drop" =>
                            (hist'.outcome[proc.stepIdx] = "DROPPED" /\ proc'.filled = "false")
                      /\ policy = "ignore" =>
                            (hist'.outcome[proc.stepIdx] = "IGNORED" /\ proc'.pc = "f_step"
                               /\ proc'.stepIdx = proc.stepIdx + 1)
                      /\ policy \notin {"drop", "ignore"} =>
                            hist'.outcome[proc.stepIdx] = "FATAL"]_vars

\* A revert with data DE was ignored by the first entry (ignore, de) of a
\* step whose second entry (drop, empty reason) matches as well.
C26_Witness ==
    /\ proc.pc = "f_step" /\ proc.stepIdx = 2
    /\ hist.outcome[1] = "IGNORED"
    /\ proc.revertData = <<(<<"D", "E">>)>>
    /\ Len(order.steps[1].attributes.RevertPolicy) = 2
    /\ order.steps[1].attributes.RevertPolicy[1].expectedReason = <<"d", "e">>
    /\ order.steps[1].attributes.RevertPolicy[2].policy = "drop"
    /\ order.steps[1].attributes.RevertPolicy[2].expectedReason = <<>>


\* The environment is as it was when the current step's pre-simulation was
\* issued: the call data built from it is the same.
EnvAsSimulated == hist.snap = [cache |-> cache, tick |-> tick]

\* C27: a transaction is sent for a step only after the pre-simulation of
\* the step's call, with the environment unchanged since, returned without
\* a revert, and it is sent once; when the pre-simulation reverts, the
\* revert data is kept and the step's revert policy is applied to it next,
\* and up to the end of the step no transaction is sent and no variable
\* is set.
C27_PreSimulationGate ==
    [][/\ hist'.sent # hist.sent =>
             /\ proc.pc = "f_send" /\ proc.revertData = <<>>
             /\ "simulate" \in hist.acts[proc.stepIdx]
             /\ EnvAsSimulated
             /\ hist.sent[proc.stepIdx] = 0
             /\ hist'.sent = [hist.sent EXCEPT ![proc.stepIdx] = 1]
       /\ proc.pc = "f_presim" =>
             /\ hist'.sent = hist.sent /\ cache' = cache
             /\ proc'.pc = "f_send" =>
                   (proc'.revertData = <<>> /\ "simulate" \in hist'.acts[proc.stepIdx]
                      /\ EnvAsSimulated')
             /\ proc'.revertData # <<>> => proc'.pc = "f_policy"
       /\ (proc.pc = "f_policy" /\ hist.sent[proc.stepIdx] = 0) =>
             /\ hist'.sent = hist.sent /\ cache' = cache /\ tick' = tick
             /\ "send" \notin hist'.acts[proc.stepIdx]
             /\ hist'.outcome[proc.stepIdx] =
                   CASE getMatchingRevertPolicy(CurStep, proc.revertData[1]) = "drop" -> "DROPPED"
                     [] getMatchingRevertPolicy(CurStep, proc.revertData[1]) = "ignore" -> "IGNORED"
                     [] OTHER -> "FATAL"
             /\ proc'.pc = "done" \/ (proc'.pc = "f_step" /\ proc'.stepIdx = proc.stepIdx + 1)]_vars

\* The first step's pre-simulation reverted and the revert was ignored
\* without a transaction; the second step's did not and its transaction
\* was sent.
C27_Witness ==
    /\ proc.stepIdx = 2 /\ proc.pc = "f_receipt"
    /\ hist.outcome[1] = "IGNORED" /\ hist.sent[1] = 0 /\ "send" \notin hist.acts[1]
    /\ "simulate" \in hist.acts[1]
    /\ hist.sent[2] = 1


\* C28: when the receipt of a sent transaction does not report success,
\* the call is simulated again at the receipt's block number; revert data
\* from that simulation goes to the step's revert policy, a simulation
\* that does not revert makes fill fail with a resolver error; from the
\* receipt to the end of the step no variable is set.
C28_PostRevert ==
    [][/\ (proc.pc = "f_receipt" /\ proc'.receipt # <<>>
             /\ proc'.receipt[1].status # "success") =>
             (proc'.pc = "f_resim" /\ cache' = cache /\ tick' = tick)
       /\ proc.pc = "f_resim" =>
             /\ proc.receipt[1].status # "success" /\ hist.sent[proc.stepIdx] = 1
             /\ proc'.simAt = <<proc.receipt[1].blockNumber>>
             /\ cache' = cache /\ tick' = tick /\ hist'.sent = hist.sent
             /\ \/ proc'.pc = "f_policy" /\ proc'.revertData # <<>>
                \/ /\ proc'.pc = "done" /\ proc'.filled = "error"
                   /\ proc'.result \in {"resolver error", "transport error"}
                   /\ hist'.outcome[proc.stepIdx] = "FATAL"
       /\ (proc.pc = "f_policy" /\ hist.sent[proc.stepIdx] = 1) =>
             /\ proc.receipt[1].status # "success"
             /\ proc.simAt = <<proc.receipt[1].blockNumber>>
             /\ cache' = cache /\ tick' = tick /\ hist'.sent = hist.sent
             /\ hist'.outcome[proc.stepIdx] \in {"DROPPED", "IGNORED", "FATAL"}
             /\ hist'.outcome[proc.stepIdx] = "DROPPED"
                   <=> getMatchingRevertPolicy(CurStep, proc.revertData[1]) = "drop"
             /\ hist'.outcome[proc.stepIdx] = "IGNORED"
                   <=> getMatchingRevertPolicy(CurStep, proc.revertData[1]) = "ignore"
       /\ hist'.outcome # hist.outcome /\ proc.stepIdx \in DOMAIN Steps
             /\ hist'.outcome[proc.stepIdx] = "COMPLETED" =>
             (proc.receipt # <<>> /\ proc.receipt[1].status = "success")]_vars

\* A transaction reverted in block 1001, the simulation at that block gave
\* revert data, and the step's policy dropped the order; no output
\* variable of the step holds a value.
C28_Witness ==
    /\ proc.pc = "done" /\ proc.filled = "false"
    /\ hist.sent[1] = 1 /\ hist.outcome[1] = "DROPPED"
    /\ proc.receipt # <<>> /\ proc.receipt[1].status = "reverted"
    /\ proc.receipt[1].blockNumber = 1001 /\ proc.simAt = <<1001>>
    /\ order.steps[1].attributes.WithBlockNumber # <<>>
    /\ cache[order.steps[1].attributes.WithBlockNumber[1].blockNumberVarIdx].value = NoValue


\* The timestamps the schedule of the current step is taken from: the value
\* of the WithTimestamp variable when its get resolved to a Static value,
\* and the RequiredFillerUntil deadline when the exclusive filler is not
\* this filler.
ScheduleCandidates ==
    (IF proc.pc = "f_schedule_ts" /\ prom[proc.wait[1]].state = "ok"
        /\ prom[proc.wait[1]].value.type = "Static"
     THEN {prom[proc.wait[1]].value.encoding} ELSE {})
    \cup {a.deadline : a \in {r \in Range(CurStep.attributes.RequiredFillerUntil) :
             ~(/\ Len(r.exclusiveFiller) = Len(ctx.fillerAddress)
               /\ \A m \in DOMAIN r.exclusiveFiller :
                     SameDigit(r.exclusiveFiller[m], ctx.fillerAddress[m]))}}

\* C29 as stated: the scheduled timestamp of a step is the largest of the
\* known WithTimestamp value and the deadline of a RequiredFillerUntil
\* that names another filler; without either there is no schedule and no
\* wait, with a schedule in the past there is no wait, and the step's
\* pre-simulation and send happen only once the clock has reached the
\* schedule.
C29_Original ==
    [][/\ (proc.pc \in {"f_schedule", "f_schedule_ts"} /\ proc'.pc \in {"f_sleep", "f_build"}) =>
             /\ now' = now
             /\ IF ScheduleCandidates = {}
                THEN proc'.sched = <<>> /\ proc'.pc = "f_build"
                ELSE /\ proc'.sched # <<>> /\ proc'.sched[1] \in ScheduleCandidates
                     /\ \A t \in ScheduleCandidates : t <= proc'.sched[1]
       /\ (proc.pc = "f_sleep" /\ now >= proc.sched[1]) => now' = now
       /\ (proc'.pc \in {"f_build", "f_presim", "f_send"} /\ proc'.sched # <<>>) =>
             now' >= proc'.sched[1]]_vars


\* The Witness variables among the arguments of the current step, up to
\* argument n.
WitnessArgs(n) ==
    {CurStep.arguments[m].varIdx :
        m \in {a \in 1..n : a <= Len(CurStep.arguments) /\ IsWitnessArg(CurStep.arguments[a])}}

\* Nothing of the current step's scheduling, simulation or sending has begun.
NotYetExecuting ==
    /\ hist.acts[proc.stepIdx] \cap {"sleep", "simulate", "send"} = {}
    /\ hist.sent[proc.stepIdx] = 0
    /\ proc.sched = <<>>

\* C30: the Witness arguments of a step are resolved in argument order
\* before anything else of the step: the resolver's result is stored by
\* env.set after the current promises of the witness's sub-variables have
\* all resolved, when nothing of the step's scheduling, simulation or
\* sending has begun; scheduling begins only when every Witness argument
\* holds a value set in this way; and when the kind of a Witness argument
\* has no resolver, fill fails there, with no simulation and no
\* transaction of the step and no variable written.
C30_WitnessResolution ==
    [][/\ (proc.pc = "f_witness_resolve" /\ proc'.pc = "f_witness") =>
             LET v == CurStep.arguments[proc.argIdx].varIdx
             IN  /\ NotYetExecuting
                 /\ Roles[v].kind \in ctx.witnessResolvers
                 /\ Len(proc.wait) = Len(Roles[v].variables)
                 /\ \A m \in DOMAIN proc.wait :
                       /\ proc.wait[m] = cache[Roles[v].variables[m]].value
                       /\ prom[proc.wait[m]].state = "ok"
                 /\ cache'[v].tick = tick /\ tick' = tick + 1
                 /\ prom'[cache'[v].value].state = "ok"
                 /\ \E w \in WitnessResults : prom'[cache'[v].value].value = w.value /\ w.err = ""
                 /\ \A i \in VarIdxs \ {v} : cache'[i] = cache[i]
       /\ (proc.pc = "f_witness" /\ proc'.pc = "f_schedule") =>
             /\ NotYetExecuting'
             /\ \A v \in WitnessArgs(Len(CurStep.arguments)) :
                   /\ cache[v].value # NoValue
                   /\ prom[cache[v].value].state = "ok"
                   /\ "witness" \in hist.acts[proc.stepIdx]
       /\ proc'.pc \in {"f_schedule_ts", "f_sleep", "f_build", "f_presim", "f_send"} =>
             proc.pc \notin {"f_step", "f_witness", "f_witness_resolve"}
       /\ (proc.pc = "f_witness"
             /\ \E m \in proc.argIdx..Len(CurStep.arguments) :
                   /\ IsWitnessArg(CurStep.arguments[m])
                   /\ Roles[CurStep.arguments[m].varIdx].kind \notin ctx.witnessResolvers
                   /\ \A a \in proc.argIdx..(m - 1) : ~IsWitnessArg(CurStep.arguments[a])) =>
             /\ proc'.pc = "done" /\ proc'.result = "Unsupported witness kind"
             /\ proc'.filled = "error"
             /\ NotYetExecuting'
             /\ cache' = cache /\ tick' = tick]_vars

\* fill was called with a resolver for kind k only: the first argument, a
\* witness of kind k, was resolved and set, and fill failed at the second,
\* of kind z, with nothing simulated or sent.
C30_Witness ==
    /\ proc.pc = "done" /\ proc.result = "Unsupported witness kind"
    /\ proc.stepIdx = 1 /\ Len(Roles) = 2
    /\ cache[1].value # NoValue /\ prom[cache[1].value].state = "ok"
    /\ cache[2].value = NoValue
    /\ hist.acts[1] = {"witness"} /\ hist.sent[1] = 0 /\ hist.io = {}

----------------------------------------------------------------------------
(* Claims about witnesses reached through other variables *)

\* The variables env.get(i) calls env.get for: i and, through the arguments
\* of Query roles, the dependencies below it.
RECURSIVE Gets(_)
Gets(i) == {i} \cup UNION {Gets(d) : d \in Range(deps(Roles, i))}

VariableArgs(k) ==
    {Steps[k].arguments[m].varIdx :
        m \in {a \in DOMAIN Steps[k].arguments : Steps[k].arguments[a].type = "Variable"}}

DirectWitnesses(k) == {i \in VariableArgs(k) : Roles[i].type = "Witness"}

\* Witness variables step k reaches through a Query argument, and through
\* the sub-variables of a Witness argument, without naming them itself.
ViaQuery(k) ==
    {w \in UNION {Gets(i) : i \in VariableArgs(k)} : Roles[w].type = "Witness"}
    \ DirectWitnesses(k)

ViaWitness(k) ==
    {w \in UNION {Gets(j) : j \in UNION {Range(Roles[i].variables) : i \in DirectWitnesses(k)}} :
        Roles[w].type = "Witness"}
    \ DirectWitnesses(k)

\* No env.set of w has been called: no resolver was called for it, and no
\* earlier step names it in a With* attribute.
NamedAsOutput(k, w) ==
    LET attrs == Steps[k].attributes
    IN  \/ \E m \in DOMAIN attrs.WithBlockNumber : attrs.WithBlockNumber[m].blockNumberVarIdx = w
        \/ \E m \in DOMAIN attrs.WithTimestamp : attrs.WithTimestamp[m].timestampVarIdx = w
        \/ \E m \in DOMAIN attrs.WithEffectiveGasPrice :
              attrs.WithEffectiveGasPrice[m].gasPriceVarIdx = w

NeverSet(w) ==
    /\ w \notin hist.resolves
    /\ \A k \in 1..(proc.stepIdx - 1) : ~NamedAsOutput(k, w)

Executing ==
    proc.pc \in {"f_witness", "f_witness_resolve", "f_schedule", "f_schedule_ts", "f_sleep",
                 "f_build", "f_presim", "f_send", "f_receipt", "f_outputs", "f_resim",
                 "f_policy"}

\* Fill is at a step that reaches the unset witness w only through other
\* variables; after the next thing it does the resolver of w has still not
\* been called, nothing of the step was simulated or sent, and the step is
\* still under way or fill has failed.
NotResolved(w) ==
    /\ w \notin hist'.resolves
    /\ hist'.acts[proc.stepIdx] \cap {"simulate", "send"} = {}
    /\ hist'.sent[proc.stepIdx] = 0
    /\ proc'.stepIdx = proc.stepIdx
    /\ proc'.pc \in {"f_witness", "f_witness_resolve", "f_schedule", "f_schedule_ts",
                     "f_sleep", "f_build", "f_presim", "done"}

\* Fill fails now, and not because the resolver of a Witness argument of the
\* step threw.
FailsNow == proc'.pc = "done" /\ proc'.result # "witness error"

FailsNotSet(w) ==
    /\ proc'.result = "not set" /\ proc'.filled = "error"
    /\ hist'.outcome[proc.stepIdx] = "FATAL"
    /\ cache'[w].value # NoValue
    /\ prom'[cache'[w].value] = Rejected(w, "not set")

----------------------------------------------------------------------------
(* Claims about the order of quote's checks *)

\* What quote does first, given which of its two rejections comes first.
QuoteBegins(first, second) ==
    /\ proc'.pc = IF first.applies \/ second.applies THEN "done" ELSE "q_flow"
    /\ proc'.result = IF first.applies THEN first.error
                      ELSE IF second.applies THEN second.error ELSE "running"
    /\ (first.applies \/ second.applies) =>
          /\ cache' = <<>> /\ tick' = 0 /\ hist'.io = {}
          /\ proc'.filled = "none"

PricingCheck == [applies |-> HasPricing, error |-> "Pricing variables not supported"]
DelayCheck == [applies |-> HasDelayed, error |-> "Delayed payment not supported"]

\* C32 as stated: quote tests for Pricing variables first and collects the
\* flows afterwards, so a plan with a Pricing variable and a delayed payment
\* is rejected as 'Pricing variables not supported'.
C32_Original ==
    [][proc.pc = "quote" => QuoteBegins(PricingCheck, DelayCheck)]_vars

\* C32: quote collects the flows first, where a delayed payment is rejected,
\* and tests for Pricing variables afterwards; a plan that contains both a
\* Pricing variable and a payment with estimatedDelaySeconds # 0 is rejected
\* as 'Delayed payment not supported'; either rejection happens before an
\* env exists and before any chain I/O.
C32_QuoteCheckOrder ==
    [][proc.pc = "quote" => QuoteBegins(DelayCheck, PricingCheck)]_vars

C32_Witness ==
    /\ proc.pc = "done" /\ proc.result = "Delayed payment not supported"
    /\ HasPricing /\ HasDelayed
    /\ PreflightError = ""
    /\ cache = <<>> /\ hist.io = {}


----------------------------------------------------------------------------
(* Claims about the list attributes of a decoded step *)

WireAttributes == proc.input.steps[1].args.attributes

\* The entries of kind t of the wire list, in wire order.
WireEntries(t) == SelectSeq(WireAttributes, LAMBDA entry : entry.functionName = t)

\* What a RevertPolicy(policy, expectedReason) entry stands for.
RevertPolicyOf(entry) ==
    [policy |-> entry.args.policy, expectedReason |-> entry.args.expectedReason]

\* The step's attribute list holds SpendsERC20 and RevertPolicy entries
\* only, and the rest of the resolver's answer decodes.
ListAttributesOnly ==
    /\ \A k \in DOMAIN WireAttributes :
          WireAttributes[k].functionName \in {"SpendsERC20", "RevertPolicy"}
    /\ resolve([proc.input EXCEPT !.steps[1].args.attributes = <<>>]).err = ""

\* resolve returned a plan whose SpendsERC20 list is the wire entries of
\* that kind, decoded, in wire order.
SpendsAccumulated ==
    /\ proc.result = "ok"
    /\ LET wire == WireEntries("SpendsERC20")
       IN  proc.value[1].steps[1].attributes.SpendsERC20 =
              [k \in DOMAIN wire |-> decodeAttribute(wire[k]).value.attr]

\* C33 as stated: every SpendsERC20 and every RevertPolicy entry of a
\* step's wire attribute list is decoded into the step's SpendsERC20 /
\* RevertPolicy list, in wire order, none lost, without an error.
C33_Original ==
    (ResolveReturned /\ ListAttributesOnly) =>
        /\ SpendsAccumulated
        /\ LET wire == WireEntries("RevertPolicy")
           IN  proc.value[1].steps[1].attributes.RevertPolicy =
                  [k \in DOMAIN wire |-> RevertPolicyOf(wire[k])]


----------------------------------------------------------------------------
(* More claims about preflight *)

\* C34 as stated: a plan with drop revert policies and no step with a
\* SpendsERC20 attribute passes the revert-policy check: process is not
\* rejected with 'Invalid RevertPolicy order', it goes on to the deadline,
\* assumption and witness checks (whose error, if any, it fails with) and,
\* when these pass, to quote.
C34_Original ==
    (proc.pc # "preflight" /\ DropSteps # {} /\ SpendSteps = {}) =>
        /\ proc.result # "Invalid RevertPolicy order"
        /\ proc.result \in PreflightErrors <=> PreflightError # ""
        /\ PreflightError \in
              {"", "Deadline too close or already expired", "Untrusted account",
               "Unsupported witness kind"}


\* The transaction of step k was mined with status success.
Succeeded(k) ==
    \/ hist.outcome[k] = "COMPLETED"
    \/ k = proc.stepIdx /\ proc.receipt # <<>> /\ proc.receipt[1].status = "success"

\* C35: in process, where fill runs only on a plan preflight accepted, when
\* fill returns false no step that carries a SpendsERC20 attribute has had
\* a successful transaction: every step before the dropped one has no
\* SpendsERC20 attribute, the dropped step itself reverted (in simulation or
\* on-chain) and no later step was started.
C35_NoSpendBeforeDrop ==
    proc.filled = "false" =>
        /\ hasValidRevertPolicies(order)
        /\ hist.outcome[proc.stepIdx] = "DROPPED"
        /\ \A k \in 1..(proc.stepIdx - 1) : ~HasSpend(Steps[k]) /\ Terminal(k)
        /\ proc.revertData # <<>>
        /\ proc.receipt # <<>> => proc.receipt[1].status = "reverted"
        /\ \A k \in (proc.stepIdx + 1)..Len(Steps) : ~Touched(k)
        /\ \A k \in StepIdxs : HasSpend(Steps[k]) => ~Succeeded(k)

\* The third step carries a SpendsERC20 attribute and the plan's last drop
\* entry: two steps completed, the third step's transaction was sent and
\* reverted on-chain, and the drop entry matched.
C35_Witness ==
    /\ proc.filled = "false" /\ proc.stepIdx = 3
    /\ HasSpend(Steps[3]) /\ HasDrop(Steps[3]) /\ HasDrop(Steps[2])
    /\ hist.outcome[1] = "COMPLETED" /\ hist.outcome[2] = "COMPLETED"
    /\ hist.sent[3] = 1 /\ proc.receipt # <<>>


----------------------------------------------------------------------------
(* Claims about the transactions of fill *)

Ended == \E k \in StepIdxs : hist.outcome[k] \in {"DROPPED", "FATAL"}

\* C36: sendTransaction is called at most once for each step, whatever the
\* transaction's fate; a send is made for the step fill is at, when every
\* earlier step has ended completed or ignored and no step was dropped or
\* ended fatally; after a send that returned a hash the next thing fill
\* does is to take the receipt of that transaction; and once a step was
\* dropped or ended fatally, fill has ended and nothing is sent any more.
C36_OneTransactionPerStep ==
    [][/\ \A k \in StepIdxs : hist'.sent[k] <= 1 /\ hist'.sent[k] >= hist.sent[k]
       /\ hist'.sent # hist.sent =>
             /\ proc.pc = "f_send"
             /\ hist'.sent = [hist.sent EXCEPT ![proc.stepIdx] = 1]
             /\ \A k \in 1..(proc.stepIdx - 1) : Terminal(k)
             /\ \A k \in (proc.stepIdx + 1)..Len(Steps) : hist.sent[k] = 0
             /\ ~Ended /\ proc.result = "running"
             /\ proc'.pc \in {"f_receipt", "done"}
             /\ proc'.pc = "done" => proc'.result = "transport error"
       /\ (proc.pc = "f_receipt" /\ proc' # proc) =>
             /\ hist' = hist \/ proc'.result = "transport error"
             /\ proc'.stepIdx = proc.stepIdx
             /\ proc'.pc \in {"f_outputs", "f_resim", "done"}
             /\ proc'.pc # "done" => proc'.receipt # <<>>
       /\ Ended => (proc.pc = "done" /\ hist'.sent = hist.sent /\ proc' = proc)]_vars

\* Three steps, one transaction each, in order; the second was mined as
\* reverted and ignored, and was not sent again.
C36_Witness ==
    /\ proc.filled = "true" /\ Len(Steps) = 3
    /\ hist.sent = <<1, 1, 1>>
    /\ hist.outcome = <<"COMPLETED", "IGNORED", "COMPLETED">>


----------------------------------------------------------------------------
(* Claims about failed computes *)

\* The slot of i holds the promise of a compute that failed.
Failed(i) == cache[i].value # NoValue /\ prom[cache[i].value].state = "err"

\* Some variable below i has a newer tick than the slot of i.
NewerDependency(i) ==
    \E d \in VarIdxs : DependsOn(Roles, i, d) /\ cache[d].tick > cache[i].tick

\* C37: a compute that failed stays in its slot, with the tick of the get
\* that started it: the rejected promise does not change, every later
\* get(i) returns it without starting a compute of i as long as no
\* variable below i has a newer tick, and the slot is written again only by
\* set(i, v) on a settable role (which stores the value v) or by a compute
\* that a get starts when a variable below i has a newer tick; a value can
\* appear in the slot in these two ways only.
C37_FailedComputeCached ==
    [][\A i \in VarIdxs :
          Failed(i) =>
             /\ 0 <= cache[i].tick /\ cache[i].tick < tick
             /\ prom'[cache[i].value] = prom[cache[i].value]
                   \/ cache'[i].value # cache[i].value
             /\ (IsGet(i) /\ ~NewerDependency(i)) =>
                   /\ last'.ret = cache[i].value
                   /\ last'.started = <<>>
                   /\ cache' = cache /\ tick' = tick
                   /\ prom'[last'.ret].state = "err"
                   /\ prom'[last'.ret].err = prom[cache[i].value].err
             /\ cache'[i] # cache[i] =>
                   \/ /\ IsCall /\ last'.op = "set" /\ last'.var = i
                      /\ CanSet(Roles[i])
                      /\ prom'[cache'[i].value] = Resolved(i, last'.arg)
                   \/ /\ IsCall /\ last'.op = "get"
                      /\ NewerDependency(i)
                      /\ Count(last'.started, i) = 1
                      /\ prom'[cache'[i].value].state # "ok"
             /\ ~Failed(i)' => cache'[i] # cache[i]]_vars

\* The eth_call of a Query failed after the variable below it had been
\* set; a second get of the Query returned the same rejected promise and
\* started nothing.
C37_Witness ==
    /\ last.op = "get" /\ last.again /\ last.started = <<>>
    /\ Roles[last.var].type = "Query"
    /\ Failed(last.var) /\ prom[last.ret].err = "call failed"
    /\ last.ret = last.before
    /\ \E d \in VarIdxs : DependsOn(Roles, last.var, d) /\ CanSet(Roles[d]) /\ WasSet(d)


----------------------------------------------------------------------------
(* Claims about quote and the values only fill provides *)

FillTimeRole(i) == Roles[i].type \in {"TxOutput", "Witness"}

\* The flows of the plan in the order quote evaluates them.
PlanFlows == AllStepFlows(Steps, 1) \o PaymentFlows(order.payments)

\* Flow f cannot be evaluated by quote: its formula is a TxOutput or Witness
\* variable, or it is the gas flow of a step without SpendsEstimatedGas
\* with an argument that is, or is a Query depending on, such a variable.
BlindFlow(f) ==
    LET flow == PlanFlows[f]
    IN  IF flow.amount # <<>>
        THEN flow.amount[1].type = "Variable" /\ FillTimeRole(flow.amount[1].varIdx)
        ELSE \E i \in VariableArgs(flow.step) : \E w \in Gets(i) : FillTimeRole(w)

BlindFlows == {f \in DOMAIN PlanFlows : BlindFlow(f)}

NothingSent == "sendTransaction" \notin hist.io /\ \A k \in StepIdxs : hist.sent[k] = 0

----------------------------------------------------------------------------
(* Claims about the receipt outputs of a step *)

\* The variables the With* attributes of a step name, in the order
\* applyTxOutputs stores them.
OutputVars(attrs) ==
    (IF attrs.WithBlockNumber # <<>>
     THEN <<attrs.WithBlockNumber[1].blockNumberVarIdx>> ELSE <<>>)
    \o (IF attrs.WithTimestamp # <<>>
        THEN <<attrs.WithTimestamp[1].timestampVarIdx>> ELSE <<>>)
    \o (IF attrs.WithEffectiveGasPrice # <<>>
        THEN <<attrs.WithEffectiveGasPrice[1].gasPriceVarIdx>> ELSE <<>>)

NotSettableOutputs ==
    {k \in DOMAIN OutputVars(CurStep.attributes) :
        ~CanSet(Roles[OutputVars(CurStep.attributes)[k]])}

\* C39: when a step's transaction succeeded and one of its With* attributes
\* names a variable that cannot be set, fill fails with 'cannot be set'
\* after the transaction was sent and confirmed, the outputs processed
\* before that attribute are set, and no later step is executed.
C39_Original ==
    [][(proc.pc = "f_outputs" /\ NotSettableOutputs # {}) =>
          /\ proc'.pc = "done" /\ proc'.result = "cannot be set"
          /\ proc'.filled = "error"
          /\ hist'.sent[proc.stepIdx] >= 1
          /\ \A k \in 1..(Min(NotSettableOutputs) - 1) :
                LET v == OutputVars(CurStep.attributes)[k]
                IN  cache'[v].value # NoValue /\ prom'[cache'[v].value].state = "ok"
          /\ \A j \in StepIdxs : j > proc.stepIdx => hist'.acts[j] = {}]_vars


----------------------------------------------------------------------------
(* Claims about the termination of get *)

\* The promise p is the promise of a compute that has not settled.
Unsettled(p) == p \in DOMAIN prom /\ prom[p].state = "pending"

\* C40: with acyclic Query dependencies and eth_calls that eventually
\* return, the promise of every get(i) is eventually settled, with a value
\* or an error; the get starts computes only of variables reachable from i
\* through Query arguments and at most one for each of them, so none of a
\* variable whose compute is under way in its own call chain; and every
\* compute it leaves pending awaits promises created before its own.
C40_GetTerminates ==
    /\ [][\A i \in VarIdxs :
             IsGet(i) =>
                /\ Range(last'.started) \subseteq Gets(i)
                /\ NoRepeats(last'.started)
                /\ last'.ret \in DOMAIN prom'
                /\ \A p \in DOMAIN prom' :
                      \A k \in DOMAIN prom'[p].awaits : prom'[p].awaits[k] < p]_vars
    /\ \A p \in 1..MaxTick : Unsettled(p) ~> ~Unsettled(p)

\* get of the top of a diamond started the four computes, the shared
\* bottom once, and the promise it returned was settled with a value after
\* the four eth_calls returned.
C40_Witness ==
    /\ last.op = "get" /\ last.var = 4
    /\ last.started = <<4, 2, 1, 3>>
    /\ tick = 4
    /\ \A i \in VarIdxs : WasSet(i)
    /\ prom[last.ret].state = "ok"


============================================================================
